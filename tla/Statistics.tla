----------------------------- MODULE Statistics -----------------------------
(***************************************************************************)
(* The tables by case of a finished benchmark: what the algorithms found   *)
(* and how long they took, and pairs of them compared.  Each record of a   *)
(* table has a contract, a condition on its fields that its constructor    *)
(* raises without.  Identifiers are left out, and of a standard deviation  *)
(* and the interval made from it only whether they are there is kept.      *)
(***************************************************************************)
EXTENDS References

Cases == {Of[i].case : i \in Instances}
InCase(c) == {i \in Instances : Of[i].case = c}

\* The variants that run in a case, and their runs there and on an instance.
InUse(c) == {a \in Algorithms : \E i \in InCase(c) : Eligible(i, a)}
RunsIn(c, a) == {p \in Plan : p[1] \in InCase(c) /\ p[2] = a}
RunsOn(i, a) == {p \in RunsOf(i) : p[2] = a}

Named(a, names) == Variant[a].name \in names
Pairs(names, others) ==
    {t \in Cases \X Algorithms \X Algorithms :
        /\ {t[2], t[3]} \subseteq InUse(t[1])
        /\ Named(t[2], names) /\ Named(t[3], others)}

With(S, statuses) == {p \in S : results[p].status \in statuses}
NumberOf(S, s) == Cardinality(With(S, {s}))

\* The runs of a record by how they ended, which are all of them.
RunCounts(S, finished) ==
    [runs |-> Cardinality(S), finished |-> Cardinality(With(S, finished)),
     timeouts |-> NumberOf(S, "timeout"), errors |-> NumberOf(S, "error")]
Partitioned(n) == n.finished + n.timeouts + n.errors = n.runs

Referenced(c) == {i \in InCase(c) : optimum[i] # Absent}
ZeroOptimum(c) == {i \in InCase(c) : optimum[i] = 0}

Runtimes(S) == {<<p, results[p].runtime>> : p \in S}
Observed(S) == {p \in S : gap[p] # Absent}
Gaps(S) == {<<p, gap[p]>> : p \in Observed(S)}

\* The fields that summarise a sample, all blank when it is empty.
SpreadAround(S, middle) ==
    IF S = {} THEN Absent
    ELSE [mean |-> Mean(S), middle |-> middle, least |-> Least(S), most |-> Greatest(S)]
Spread(S) == SpreadAround(S, Median(S))

\* The fields are there for a sample, and ordered but for their mean.
SpreadOrdered(s, size) ==
    /\ s = Absent <=> size = 0
    /\ s # Absent => AtMost(s.least, s.middle) /\ AtMost(s.middle, s.most)

Places(s) == {s.middle, s.least, s.most}

\* A mean lies between the extremes and is the only value, but for a rounding.
SpreadAccepted(s, size) ==
    /\ SpreadOrdered(s, size)
    /\ s # Absent =>
        /\ AtMost(s.least, s.mean) \/ Within(s.least, s.mean)
        /\ AtMost(s.mean, s.most) \/ Within(s.most, s.mean)
        /\ size = 1 => \A x \in Places(s) : Close(s.mean, x)

\* Here the tolerance is relative only, and there is none for a single value.
DescriptiveSpreadAccepted(s, size) ==
    /\ SpreadOrdered(s, size)
    /\ s # Absent =>
        /\ AtMost(s.least, s.mean) \/ RelativelyClose(s.least, s.mean)
        /\ AtMost(s.mean, s.most) \/ RelativelyClose(s.most, s.mean)
        /\ size = 1 => \A x \in Places(s) : s.mean = x

-----------------------------------------------------------------------------
(***************************************************************************)
(* summary.csv, descriptive_statistics.csv and the intervals made from it. *)
(***************************************************************************)

Summary(c, a) ==
    LET runs == RunsIn(c, a)
        covered == {p \in runs : results[p].coverage # Absent}
        gaps == Gaps(runs)
    IN  [runs |-> Cardinality(runs), timeouts |-> NumberOf(runs, "timeout"),
         meanCoverage |-> IF covered = {} THEN Absent
                          ELSE Mean({<<p, <<results[p].coverage, 1>>>> : p \in covered}),
         meanRuntime |-> Mean(Runtimes(runs)),
         meanGap |-> IF gaps = {} THEN Absent ELSE Mean(gaps),
         maxGap |-> IF gaps = {} THEN Absent ELSE Greatest(gaps)]

SummaryAccepted(s) ==
    /\ s.runs > 0 /\ s.timeouts \in 0 .. s.runs
    /\ s.meanCoverage # Absent => AtMost(Zero, s.meanCoverage)
    /\ AtMost(Zero, s.meanRuntime)
    /\ s.meanGap = Absent <=> s.maxGap = Absent
    /\ s.meanGap # Absent =>
        /\ InUnit(s.meanGap) /\ InUnit(s.maxGap)
        /\ AtMost(s.meanGap, s.maxGap) \/ RelativelyClose(s.meanGap, s.maxGap)

Metrics == {"coverage", "optimality_gap", "runtime_seconds"}

\* Mutant: a gap counts for a completed run only.
SampledCompleted(i, a, metric) ==
    CASE metric = "coverage" -> {p \in RunsOn(i, a) : results[p].coverage # Absent}
      [] metric = "optimality_gap" -> Observed(With(RunsOn(i, a), Completed))
      [] metric = "runtime_seconds" -> With(RunsOn(i, a), Completed)

\* The runs of an instance that a metric is known of, and its value there.
Sampled(i, a, metric) ==
    CASE metric = "coverage" -> {p \in RunsOn(i, a) : results[p].coverage # Absent}
      [] metric = "optimality_gap" -> Observed(RunsOn(i, a))
      [] metric = "runtime_seconds" -> With(RunsOn(i, a), Completed)

ValueOf(p, metric) ==
    CASE metric = "coverage" -> <<results[p].coverage, 1>>
      [] metric = "optimality_gap" -> gap[p]
      [] metric = "runtime_seconds" -> results[p].runtime

\* One value for each instance, the mean over its seeds.
Sample(c, a, metric) ==
    {<<i, Mean({<<p, ValueOf(p, metric)>> : p \in Sampled(i, a, metric)})>> :
        i \in {j \in InCase(c) : Sampled(j, a, metric) # {}}}

Quarters == <<<<1, 4>>, <<3, 4>>, <<19, 20>>>>

DescriptiveOf(c, S, runs) ==
    LET size == Cardinality(InCase(c))
        timeouts == NumberOf(runs, "timeout")
        errors == NumberOf(runs, "error")
        references == Cardinality(Referenced(c))
    IN  [instances |-> size, sample |-> Cardinality(S), runs |-> Cardinality(runs),
         timeouts |-> timeouts, timeoutRate |-> Rate(timeouts, Cardinality(runs)),
         errors |-> errors, errorRate |-> Rate(errors, Cardinality(runs)),
         references |-> references, referenceRate |-> Rate(references, size),
         spread |-> SpreadAround(S, Quantile(S, <<1, 2>>)), deviation |-> Cardinality(S) > 1,
         quantiles |-> IF S = {} THEN Absent ELSE [n \in 1 .. 3 |-> Quantile(S, Quarters[n])]]

Descriptive(c, a, metric) == DescriptiveOf(c, Sample(c, a, metric), RunsIn(c, a))

\* What the counts of both tables of metrics satisfy.
SampleCounted(d, metric) ==
    /\ d.instances > 0 /\ d.runs >= d.instances /\ d.sample \in 0 .. d.instances
    /\ d.references \in 0 .. d.instances /\ d.timeouts + d.errors <= d.runs
    /\ metric = "optimality_gap" => d.sample <= d.references

DescriptiveAccepted(d, metric) ==
    /\ SampleCounted(d, metric)
    /\ RateAccepted(d.timeoutRate, d.timeouts, d.runs)
    /\ RateAccepted(d.errorRate, d.errors, d.runs)
    /\ RateAccepted(d.referenceRate, d.references, d.instances)
    /\ DescriptiveSpreadAccepted(d.spread, d.sample)
    /\ d.quantiles = Absent <=> d.sample = 0
    /\ d.deviation <=> d.sample > 1
    /\ d.sample = 1 => \A n \in 1 .. 3 : d.quantiles[n] = d.spread.mean
    /\ d.sample > 0 =>
        /\ AtMost(d.spread.least, d.quantiles[1]) /\ AtMost(d.quantiles[1], d.spread.middle)
        /\ AtMost(d.spread.middle, d.quantiles[2]) /\ AtMost(d.quantiles[2], d.quantiles[3])
        /\ AtMost(d.quantiles[3], d.spread.most) /\ AtMost(Zero, d.spread.least)
        /\ metric = "optimality_gap" => AtMost(d.spread.most, One)

\* The interval is made from the record read back from its decimals, around
\* their mean; how wide it is does not matter here.
Reread(s) ==
    IF s = Absent THEN Absent
    ELSE [mean |-> Dec(s.mean), middle |-> Dec(s.middle),
          least |-> Dec(s.least), most |-> Dec(s.most)]

RereadNumber(x) == IF x = Absent THEN Absent ELSE Dec(x)

RereadDescriptive(d) ==
    [d EXCEPT !.spread = Reread(@), !.timeoutRate = Dec(@), !.errorRate = Dec(@),
              !.referenceRate = Dec(@),
              !.quantiles = IF @ = Absent THEN Absent ELSE [n \in 1 .. 3 |-> Dec(@[n])]]

IntervalStatus(sample) ==
    CASE sample = 0 -> "no_samples" [] sample = 1 -> "insufficient_samples" [] OTHER -> "estimable"

IntervalOf(d) ==
    [instances |-> d.instances, sample |-> d.sample, runs |-> d.runs, timeouts |-> d.timeouts,
     errors |-> d.errors, references |-> d.references, degrees |-> Max({d.sample - 1, 0}),
     mean |-> IF d.spread = Absent THEN Absent ELSE d.spread.mean,
     interval |-> d.sample > 1, status |-> IntervalStatus(d.sample)]

Interval(c, a, metric) == IntervalOf(RereadDescriptive(Descriptive(c, a, metric)))

IntervalAccepted(v, metric) ==
    /\ SampleCounted(v, metric)
    /\ v.degrees = Max({v.sample - 1, 0})
    /\ v.mean = Absent <=> v.sample = 0
    /\ v.mean # Absent => AtMost(Zero, v.mean)
    /\ v.mean # Absent /\ metric = "optimality_gap" => AtMost(v.mean, One)
    /\ v.interval <=> v.sample > 1
    /\ v.status = IntervalStatus(v.sample)

-----------------------------------------------------------------------------
(***************************************************************************)
(* censored_runtime_statistics.csv: a timeout bounds a runtime from below. *)
(***************************************************************************)

\* Mutant: the instances that every run of timed out.
CensorTimesOfAll(c, a) ==
    {<<i, Dec(Mean(Runtimes(RunsOn(i, a))))>> :
        i \in {j \in InCase(c) : With(RunsOn(j, a), {"timeout"}) = RunsOn(j, a)}}

CensorTimes(c, a) ==
    LET timedOut(i) == With(RunsOn(i, a), {"timeout"})
    IN  {<<i, Dec(Mean(Runtimes(timedOut(i))))>> : i \in {j \in InCase(c) : timedOut(j) # {}}}

DecimalMeans(spread) ==
    IF spread = Absent THEN Absent ELSE [spread EXCEPT !.mean = Dec(@), !.middle = Dec(@)]

CensoringStatus(sample, completed) ==
    IF sample = 0
    THEN IF completed = 0 THEN "no_runtime_observations" ELSE "no_censoring"
    ELSE IF completed = 0 THEN "all_runtime_observations_right_censored"
    ELSE "right_censoring_present"

CensoredOf(c, a, ran, times) ==
    LET number(P(_)) == Quantify(InCase(c), P)
        size == Cardinality(InCase(c))
        censored == number(LAMBDA i : With(RunsOn(i, a), {"timeout"}) # {})
    IN  [instances |-> size, ran |-> ran,
         completedOn |-> number(LAMBDA i : With(RunsOn(i, a), Completed) # {}),
         censoredOn |-> censored, rate |-> Dec(Rate(censored, size)),
         failedOn |-> number(LAMBDA i : With(RunsOn(i, a), {"error"}) # {}),
         fullyOn |-> number(LAMBDA i : With(RunsOn(i, a), {"timeout"}) = RunsOn(i, a)),
         sample |-> Cardinality(times), spread |-> DecimalMeans(Spread(times)),
         status |-> CensoringStatus(Cardinality(times), ran.finished)]

Censored(c, a) == CensoredOf(c, a, RunCounts(RunsIn(c, a), Completed), CensorTimes(c, a))

CensoredAccepted(r) ==
    /\ r.instances > 0 /\ r.ran.runs >= r.instances /\ Partitioned(r.ran)
    /\ {r.completedOn, r.censoredOn, r.failedOn, r.fullyOn} \subseteq 0 .. r.instances
    /\ r.completedOn <= r.ran.finished /\ (r.completedOn = 0 <=> r.ran.finished = 0)
    /\ r.censoredOn <= r.ran.timeouts /\ (r.censoredOn = 0 <=> r.ran.timeouts = 0)
    /\ r.failedOn <= r.ran.errors /\ (r.failedOn = 0 <=> r.ran.errors = 0)
    /\ r.fullyOn <= r.censoredOn /\ r.fullyOn + r.completedOn <= r.instances
    /\ r.sample = r.censoredOn
    /\ RateAccepted(r.rate, r.censoredOn, r.instances)
    /\ r.spread = Absent <=> r.sample = 0
    /\ r.spread # Absent =>
        /\ AtMost(Zero, r.spread.least)
        /\ AtMost(r.spread.least, r.spread.middle) /\ AtMost(r.spread.middle, r.spread.most)
        /\ AtMost(r.spread.least, r.spread.mean) /\ AtMost(r.spread.mean, r.spread.most)
    /\ r.status = CensoringStatus(r.sample, r.ran.finished)

-----------------------------------------------------------------------------
(***************************************************************************)
(* greedy_failure_statistics.csv and the two tables of local search on the *)
(* instances where greedy failed.                                          *)
(***************************************************************************)

Row(i, a) == results[<<i, a, Absent>>]
HeuristicStatuses == {"feasible", "timeout", "error"}

\* The completed greedy runs that can be compared with an optimum, and those below it.
Comparable(c, a) == {i \in Referenced(c) : Row(i, a).status = "feasible"}
Failures(c, a) == {i \in Comparable(c, a) : Row(i, a).coverage < optimum[i]}

GreedyFailure(c, a) ==
    LET size == Cardinality(InCase(c))
        ran == RunCounts(RunsIn(c, a), {"feasible"})
        references == Cardinality(Referenced(c))
        eligible == Cardinality(Comparable(c, a))
        failures == Cardinality(Failures(c, a))
        ties == Cardinality(Comparable(c, a) \ Failures(c, a))
    IN  [instances |-> size, ran |-> ran,
         timeoutRate |-> Rate(ran.timeouts, size), errorRate |-> Rate(ran.errors, size),
         references |-> references, referenceRate |-> Rate(references, size),
         none |-> size - references,
         eligible |-> eligible, eligibleRate |-> Rate(eligible, size),
         failures |-> failures, failureRate |-> Rate(failures, eligible),
         ties |-> ties, tieRate |-> Rate(ties, eligible)]

GreedyFailureAccepted(g) ==
    /\ g.instances > 0 /\ g.ran.runs = g.instances /\ Partitioned(g.ran)
    /\ g.none >= 0 /\ g.references + g.none = g.instances
    /\ g.eligible <= g.ran.finished /\ g.eligible <= g.references
    /\ g.eligible >= g.ran.finished + g.references - g.instances
    /\ g.failures + g.ties = g.eligible
    /\ RateAccepted(g.timeoutRate, g.ran.timeouts, g.ran.runs)
    /\ RateAccepted(g.errorRate, g.ran.errors, g.ran.runs)
    /\ RateAccepted(g.referenceRate, g.references, g.instances)
    /\ RateAccepted(g.eligibleRate, g.eligible, g.instances)
    /\ RateAccepted(g.failureRate, g.failures, g.eligible)
    /\ RateAccepted(g.tieRate, g.ties, g.eligible)

\* The failures that a completed local search is compared on.
Recoverable(c, a, l) == {i \in Failures(c, a) : Row(i, l).status = "feasible"}

\* What _local_search_pair_analyses raises for.
PairRefused(c, a, l) ==
    \/ \E i \in InCase(c), b \in {a, l} : Row(i, b).status \notin HeuristicStatuses
    \/ \E i \in Referenced(c), b \in {a, l} :
        Row(i, b).coverage # Absent /\ Row(i, b).coverage > optimum[i]
    \/ \E i \in Recoverable(c, a, l) : Row(i, l).coverage < Row(i, a).coverage

Recoveries(c, a, l) ==
    {<<i, Fl(<<Row(i, l).coverage - Row(i, a).coverage, optimum[i] - Row(i, a).coverage>>)>> :
        i \in Recoverable(c, a, l)}

RemainingGaps(c, a, l) ==
    {<<i, Fl(<<optimum[i] - Row(i, l).coverage, optimum[i]>>)>> : i \in Recoverable(c, a, l)}

Recovery(c, a, l) ==
    LET S == Recoverable(c, a, l)
        failures == Cardinality(Failures(c, a))
        full == Quantify(S, LAMBDA i : Row(i, l).coverage = optimum[i])
    IN  [instances |-> Cardinality(InCase(c)), references |-> Cardinality(Referenced(c)),
         greedy |-> RunCounts(RunsIn(c, a), {"feasible"}),
         local |-> RunCounts(RunsIn(c, l), {"feasible"}),
         failures |-> failures,
         eligible |-> Cardinality(S), eligibleRate |-> Rate(Cardinality(S), failures),
         mean |-> IF S = {} THEN Absent ELSE Mean(Recoveries(c, a, l)),
         full |-> full, fullRate |-> Rate(full, Cardinality(S))]

RecoveryAccepted(r) ==
    /\ r.instances > 0 /\ r.references \in 0 .. r.instances
    /\ Partitioned(r.greedy) /\ r.greedy.runs = r.instances
    /\ Partitioned(r.local) /\ r.local.runs = r.instances
    /\ r.failures <= r.greedy.finished /\ r.failures <= r.references
    /\ r.eligible <= r.failures /\ r.eligible <= r.local.finished
    /\ r.eligible >= r.failures + r.local.finished - r.instances
    /\ r.full <= r.eligible
    /\ RateAccepted(r.eligibleRate, r.eligible, r.failures)
    /\ r.mean = Absent <=> r.eligible = 0
    /\ r.mean # Absent => InUnit(r.mean)
    /\ RateAccepted(r.fullRate, r.full, r.eligible)

RemainingGap(c, a, l) ==
    LET S == RemainingGaps(c, a, l)
        zero == Quantify(S, LAMBDA s : s[2] = Zero)
    IN  [instances |-> Cardinality(InCase(c)), references |-> Cardinality(Referenced(c)),
         failures |-> Cardinality(Failures(c, a)), eligible |-> Cardinality(S),
         mean |-> IF S = {} THEN Absent ELSE Mean(S),
         most |-> IF S = {} THEN Absent ELSE Greatest(S),
         zero |-> zero, zeroRate |-> Rate(zero, Cardinality(S))]

\* This mean is compared with the maximum as it is, without a tolerance.
RemainingGapAccepted(r) ==
    /\ r.instances > 0 /\ r.references \in 0 .. r.instances
    /\ r.failures <= r.references /\ r.eligible <= r.failures /\ r.zero <= r.eligible
    /\ r.mean = Absent <=> r.eligible = 0
    /\ r.most = Absent <=> r.eligible = 0
    /\ RateAccepted(r.zeroRate, r.zero, r.eligible)
    /\ r.mean # Absent =>
        /\ InUnit(r.mean) /\ InUnit(r.most) /\ AtMost(r.mean, r.most)
        /\ r.zero = r.eligible <=> Close(r.most, Zero)

-----------------------------------------------------------------------------
(***************************************************************************)
(* Heuristic against exact runtimes, baseline against enhanced nodes.      *)
(***************************************************************************)

IsZero(x) == x[1] = 0

\* The instances where both completed and the exact algorithm took any time.
Timed(c, h, e) ==
    {i \in InCase(c) :
        /\ With(RunsOn(i, h), Completed) # {}
        /\ Row(i, e).status \in Completed /\ ~IsZero(Row(i, e).runtime)}

RuntimeRatio(c, h, e) ==
    LET S == Timed(c, h, e)
        ratios ==
            {<<i, Quotient(Mean(Runtimes(With(RunsOn(i, h), Completed))), Row(i, e).runtime)>> :
                i \in S}
    IN  [instances |-> Cardinality(InCase(c)),
         heuristic |-> RunCounts(RunsIn(c, h), Completed),
         exact |-> RunCounts(RunsIn(c, e), Completed), eligible |-> Cardinality(S),
         zeroRuntimes |-> Quantify(InCase(c), LAMBDA i :
             Row(i, e).status \in Completed /\ IsZero(Row(i, e).runtime)),
         spread |-> Spread(ratios)]

RuntimeRatioAccepted(r) ==
    /\ r.instances > 0 /\ r.heuristic.runs >= r.instances /\ r.exact.runs = r.instances
    /\ Partitioned(r.heuristic) /\ Partitioned(r.exact)
    /\ r.eligible <= r.instances
    /\ r.eligible <= r.exact.finished /\ r.zeroRuntimes <= r.exact.finished
    /\ SpreadAccepted(r.spread, r.eligible)
    /\ r.spread # Absent => \A x \in Places(r.spread) \cup {r.spread.mean} : AtMost(Zero, x)

BothOptimal(c, b, e) ==
    {i \in InCase(c) : Row(i, b).status = "optimal" /\ Row(i, e).status = "optimal"}

\* What _bnb_node_reduction_statistics raises for.
NodesRefused(c, b, e) ==
    \/ \E i \in InCase(c), a \in {b, e} : Row(i, a).status = "feasible"
    \/ \E i \in BothOptimal(c, b, e) : Row(i, b).coverage # Row(i, e).coverage

NodeReduction(c, b, e) ==
    LET S == {i \in BothOptimal(c, b, e) : Row(i, b).nodes > 0}
        reductions ==
            {<<i, Difference(One, Fl(<<Row(i, e).nodes, Row(i, b).nodes>>))>> : i \in S}
        total(a) == MapThenSumSet(LAMBDA i : Row(i, a).nodes, S)
    IN  [instances |-> Cardinality(InCase(c)),
         baseline |-> RunCounts(RunsIn(c, b), {"optimal"}),
         enhanced |-> RunCounts(RunsIn(c, e), {"optimal"}),
         eligible |-> Cardinality(S),
         zeroNodes |-> Quantify(InCase(c), LAMBDA i :
             Row(i, b).status = "optimal" /\ Row(i, b).nodes = 0),
         baselineNodes |-> total(b), enhancedNodes |-> total(e),
         spread |-> Spread(reductions),
         aggregate |-> IF S = {} THEN Absent
                       ELSE Difference(One, Fl(<<total(e), total(b)>>))]

NodeReductionAccepted(r) ==
    /\ r.instances > 0 /\ r.baseline.runs = r.instances /\ r.enhanced.runs = r.instances
    /\ Partitioned(r.baseline) /\ Partitioned(r.enhanced)
    /\ r.eligible <= r.baseline.finished /\ r.eligible <= r.enhanced.finished
    /\ r.eligible + r.zeroNodes <= r.baseline.finished
    /\ r.eligible >= r.baseline.finished + r.enhanced.finished - r.instances - r.zeroNodes
    /\ SpreadAccepted(r.spread, r.eligible)
    /\ r.eligible = 0 => r.baselineNodes = 0 /\ r.enhancedNodes = 0 /\ r.aggregate = Absent
    /\ r.eligible > 0 =>
        /\ r.baselineNodes > 0 /\ r.aggregate # Absent
        /\ \A x \in {r.spread.mean, r.spread.middle, r.spread.least, r.spread.most, r.aggregate} :
            AtMost(x, One)
        /\ Close(r.aggregate, Fl(<<r.baselineNodes - r.enhancedNodes, r.baselineNodes>>))
        /\ r.eligible = 1 => Close(r.spread.mean, r.aggregate)

-----------------------------------------------------------------------------
(***************************************************************************)
(* quality_runtime_pareto_statistics.csv: the algorithms of a case by mean *)
(* gap and mean runtime, over the instances that every run completed.      *)
(***************************************************************************)

Evaluated(c) ==
    {i \in Referenced(c) \ ZeroOptimum(c) : \A p \in RunsOf(i) : results[p].status \in Completed}

Point(c, a) ==
    LET mean(of(_)) == Dec(Mean({<<i, Mean(of(RunsOn(i, a)))>> : i \in Evaluated(c)}))
    IN  <<mean(Gaps), mean(Runtimes)>>

Dominates(x, y) ==
    /\ AtMost(x[1], y[1]) /\ AtMost(x[2], y[2])
    /\ Less(x[1], y[1]) \/ Less(x[2], y[2])

Dominators(c, a) ==
    IF Evaluated(c) = {} THEN {}
    ELSE LET point == Point(c, a)
         IN  {b \in InUse(c) \ {a} : Dominates(Point(c, b), point)}

ParetoOf(c, a, ran, dominators) ==
    LET size == Cardinality(InCase(c))
        references == Cardinality(Referenced(c))
    IN  [algorithm |-> a, instances |-> size, ran |-> ran,
         references |-> references, none |-> size - references,
         zeroOptima |-> Cardinality(ZeroOptimum(c)), eligible |-> Cardinality(Evaluated(c)),
         point |-> IF Evaluated(c) = {} THEN Absent ELSE Point(c, a),
         dominators |-> dominators,
         status |-> IF Evaluated(c) = {} THEN "not_evaluable"
                    ELSE IF dominators = {} THEN "frontier" ELSE "dominated"]

Pareto(c, a) == ParetoOf(c, a, RunCounts(RunsIn(c, a), Completed), Dominators(c, a))

ParetoAccepted(r) ==
    /\ r.instances > 0 /\ r.ran.runs >= r.instances /\ Partitioned(r.ran)
    /\ r.none >= 0 /\ r.references + r.none = r.instances
    /\ r.zeroOptima <= r.references
    /\ r.eligible <= r.references - r.zeroOptima /\ r.eligible <= r.ran.finished
    /\ r.algorithm \notin r.dominators
    /\ r.point = Absent <=> r.eligible = 0
    /\ r.point # Absent => InUnit(r.point[1]) /\ AtMost(Zero, r.point[2])
    /\ r.status = IF r.eligible = 0 THEN "not_evaluable"
                  ELSE IF r.dominators = {} THEN "frontier" ELSE "dominated"
    /\ r.eligible = 0 => r.dominators = {}
=============================================================================
