------------------------------- MODULE Audit --------------------------------
(***************************************************************************)
(* The audit of a configuration's scans (stressor_audit.py): whether the   *)
(* parameter that a scan varies moves the measure it is meant to move,     *)
(* and nothing else.                                                       *)
(***************************************************************************)
EXTENDS Planning

CONSTANT Tolerance   \* how far the mean incidence may range, as a fraction

VARIABLE report      \* what the audit says of each scan

\* _AUDIT_SPECS.
AuditSpecs ==
    {<<"duplicate_heavy", "copy_factor", "duplicates", "increasing">>,
     <<"dominated_heavy", "child_count", "dominated", "increasing">>,
     <<"long_tail", "gamma", "gini", "increasing">>,
     <<"high_overlap", "core_fraction", "overlap", "increasing">>,
     <<"high_overlap", "core_probability", "overlap", "increasing">>,
     <<"clustered", "within_probability", "separation", "increasing">>,
     <<"clustered", "outside_probability", "separation", "decreasing">>,
     <<"clustered", "clusters", "separation", "none">>,
     <<"adversarial", "trap_count", "severity", "decreasing">>,
     <<"controlled_high_overlap", "shared_core_size", "overlap", "increasing">>,
     <<"controlled_clustered", "within_core_size", "separation", "increasing">>,
     <<"controlled_duplicate", "copy_factor", "duplicates", "increasing">>,
     <<"controlled_dominated", "dominated_pair_count", "dominated", "increasing">>,
     <<"controlled_adversarial", "trap_count", "severity", "decreasing">>}

TrapFamilies == {"adversarial", "controlled_adversarial"}

-----------------------------------------------------------------------------
(***************************************************************************)
(* Measures.                                                               *)
(***************************************************************************)

\* Fractions in lowest terms.
Divisors(n) == {d \in 1 .. n : n % d = 0}
Lowest(x) ==
    IF x[1] = 0 THEN <<0, 1>>
    ELSE LET size == IF x[1] < 0 THEN -x[1] ELSE x[1]
             common == Max(Divisors(size) \cap Divisors(x[2]))
         IN  <<IF x[1] < 0 THEN -(size \div common) ELSE size \div common, x[2] \div common>>

Plus(x, y) == Lowest(<<x[1] * y[2] + y[1] * x[2], x[2] * y[2]>>)
Minus(x, y) == Plus(x, <<-y[1], y[2]>>)
Lower(x, y) == x[1] * y[2] < y[1] * x[2]
MeanOver(S, value(_)) ==
    LET sum == FoldSet(LAMBDA i, total : Plus(value(i), total), <<0, 1>>, S)
    IN  Lowest(<<sum[1], sum[2] * Cardinality(S)>>)

\* analyze_stressor_structure: sets of one cluster are more alike.
Within(x) ==
    {q \in ValidPairs(x) : (q[1] - 1) % x.parameters.clusters = (q[2] - 1) % x.parameters.clusters}
Separation(x) ==
    IF Within(x) = {} \/ ValidPairs(x) = Within(x) THEN NoValue
    ELSE Minus(Lowest(MeanJaccard(x, Within(x))),
               Lowest(MeanJaccard(x, ValidPairs(x) \ Within(x))))

\* The target of a specification; NoValue is where it raises.
Target(x, measure) ==
    CASE measure = "duplicates" -> <<Structure(x).duplicates, Len(x.sets)>>
      [] measure = "dominated" -> <<Structure(x).dominated, Len(x.sets)>>
      [] measure = "gini" -> Gini(x)
      [] measure = "overlap" -> MeanJaccard(x, ValidPairs(x))
      [] measure = "separation" -> Separation(x)
      [] measure = "severity" ->
            IF x.parameters.trap_count = Omitted THEN NoValue
            ELSE <<x.parameters.block_size - x.parameters.trap_count,
                   2 * x.parameters.block_size>>

\* greedy(instance).selected[0]: the first of the largest sets.
Largest(x) ==
    {i \in Indices(x) : \A j \in Indices(x) : Cardinality(x.sets[j]) <= Cardinality(x.sets[i])}
FirstPick(x) == CHOOSE i \in Largest(x) : \A j \in Largest(x) : i <= j

-----------------------------------------------------------------------------
(***************************************************************************)
(* _audit_scan.  A scan is the set of cases of one name and family.        *)
(***************************************************************************)

Scans ==
    {S \in {{j \in DOMAIN cases : cases[j].name = cases[i].name} : i \in DOMAIN cases} :
        Cardinality(S) > 1 /\ \A i \in S : cases[i].family # "uniform"}

FamilyOf(S) == (CHOOSE c \in {cases[i] : i \in S} : TRUE).family

Given(i, name) ==
    IF name \in DOMAIN cases[i].parameters THEN cases[i].parameters[name] ELSE Omitted
Varied(S) ==
    {n \in UNION {DOMAIN cases[i].parameters : i \in S} :
        \E i, j \in S : Given(i, n) # Given(j, n)}

SpecsFor(S) == {s \in AuditSpecs : s[1] = FamilyOf(S) /\ s[2] \in Varied(S)}

\* The instances of a scan, and those of a level of it.
RowsOf(S) == {r \in DOMAIN planned : planned[r].case \in S}
LevelOf(spec, r) == Given(planned[r].case, spec[2])
RowsAt(S, spec, level) == {r \in RowsOf(S) : LevelOf(spec, r) = level}

\* Levels are whole numbers, or fractions where the parameter may be any number.
FractionParameters ==
    {"gamma", "core_fraction", "core_probability", "within_probability", "outside_probability"}
LevelAsFraction(spec, level) == IF spec[2] \in FractionParameters THEN level ELSE <<level, 1>>

TargetMean(S, spec, level) ==
    MeanOver(RowsAt(S, spec, level), LAMBDA r : Target(planned[r].instance, spec[3]))
IncidenceMean(S, spec, level) ==
    MeanOver(RowsAt(S, spec, level), LAMBDA r : <<Incidence(planned[r].instance), 1>>)

\* _uniform_control is drawn with the density of the instance, which uniform_random
\* refuses if it is zero.
HasControl(x) == PositiveProbability(<<Incidence(x), x.universe * Len(x.sets)>>)

\* The audit raises: a target or a level that is none, a certificate that is
\* wrong, or an instance without a control.
ScanRaises(S, spec) ==
    \E r \in RowsOf(S) :
        \/ LevelOf(spec, r) = Omitted
        \/ Target(planned[r].instance, spec[3]) = NoValue
        \/ spec[1] \in TrapFamilies /\ CertificateRefused(planned[r].instance)
        \/ ~HasControl(planned[r].instance)

\* _monotonic, for levels with their means.
Monotonic(means, direction) ==
    \A a, b \in means :
        Lower(a[1], b[1]) =>
            IF direction = "increasing" THEN Lower(a[2], b[2]) ELSE Lower(b[2], a[2])

SameDimensions(S) ==
    \A q, r \in RowsOf(S) :
        LET x == planned[q].instance
            y == planned[r].instance
        IN  x.universe = y.universe /\ Len(x.sets) = Len(y.sets) /\ x.k = y.k

\* _relative_range: the highest and lowest mean, relative to their own mean.
Stable(incidences) ==
    \A a, b \in incidences :
        LET range == Minus(a[2], b[2])
            center == MeanOver(incidences, LAMBDA m : m[2])
        IN  ~Lower(<<Tolerance[1] * center[1], Tolerance[2] * center[2]>>, range)

TrapsVerified(S, spec) ==
    spec[1] \in TrapFamilies =>
        \A r \in RowsOf(S) :
            /\ FirstPick(planned[r].instance) = 1
            /\ Certificate(planned[r].instance) # NoCertificate

Assessment(S, spec, levels) ==
    LET means == {<<LevelAsFraction(spec, v), TargetMean(S, spec, v)>> : v \in levels}
        incidences == {<<LevelAsFraction(spec, v), IncidenceMean(S, spec, v)>> : v \in levels}
    IN  IF spec[4] = "none" THEN "descriptive"
        ELSE IF Cardinality(levels) > 1 /\ Monotonic(means, spec[4]) /\ SameDimensions(S)
                /\ Stable(incidences) /\ TrapsVerified(S, spec)
        THEN "pass" ELSE "fail"

ScanReport(S) ==
    IF Cardinality(SpecsFor(S)) # 1 THEN "skipped"
    ELSE LET spec == CHOOSE s \in SpecsFor(S) : TRUE
         IN  IF ScanRaises(S, spec) THEN "raised"
             ELSE Assessment(S, spec, {LevelOf(spec, r) : r \in RowsOf(S)})

\* audit_stressor_configs, after _instances_for_config.
AuditScans ==
    /\ stage = "planning" /\ AllPlanned
    /\ report' = {<<S, ScanReport(S)>> : S \in Scans}
    /\ stage' = "audited"
    /\ UNCHANGED <<config, cases, preview, drawn, planned, tasks>>

AuditInit == PlanInit /\ report = {}
AuditNext == (PlanNext /\ UNCHANGED report) \/ AuditScans

AuditSpec == AuditInit /\ [][AuditNext]_<<planVars, report>>

-----------------------------------------------------------------------------
(***************************************************************************)
(* Properties.                                                             *)
(***************************************************************************)

\* What greedy covers with two sets.
TwoPicks(x) ==
    LET second == CHOOSE j \in Indices(x) :
                      \A i \in Indices(x) :
                          Value(x, {FirstPick(x), i}) <= Value(x, {FirstPick(x), j})
    IN  Value(x, {FirstPick(x), second})

\* The optimum that comes with a constructed instance is one, on every draw of
\* its other sets, and greedy is caught as the documentation says: it begins
\* with the bait and loses the severity's part of the optimum.
CertificatesTrue ==
    planned # <<>> =>
        LET x == planned[Len(planned)].instance
        IN  /\ Certificate(x) # NoCertificate => IsOptimum(x, Certificate(x).value)
            /\ IsTrap(x) =>
                /\ FirstPick(x) = 1
                /\ SameRatio(Severity(x), <<Certificate(x).value - TwoPicks(x), Certificate(x).value>>)

\* Two levels of a coupled scan, of one repetition, have the same draws: copies are of the same
\* sets, children are added to those before, and the sets of mixed_cluster
\* that are not made bridges stay as they are.
SharedDraws(m, n) ==
    LET x == m.instance
        y == n.instance
        p == x.parameters
        q == y.parameters
    IN  CASE x.family = "duplicate_heavy" ->
                \A i \in 1 .. p.base_set_count :
                    x.sets[(i - 1) * p.copy_factor + 1] = y.sets[(i - 1) * q.copy_factor + 1]
          [] x.family = "dominated_heavy" ->
                p.child_count <= q.child_count => Masks(x) \subseteq Masks(y)
          [] x.family = "mixed_cluster" ->
                Cardinality({i \in Indices(x) : x.sets[i] # y.sets[i]})
                    <= IF BridgeCount(p) < BridgeCount(q) THEN BridgeCount(q) - BridgeCount(p)
                       ELSE BridgeCount(p) - BridgeCount(q)
          [] OTHER -> TRUE

\* Every scan of a controlled family moves its measure and nothing else, if it
\* varies its intensity only, and has two sets to compare; and the levels of
\* the scans that are coupled differ by their intensity only.
ScansIsolated ==
    /\ \A s \in report :
        LET family == FamilyOf(s[1])
        IN  /\ family \in PooledFamilies \cup {"controlled_adversarial"}
            /\ Varied(s[1]) = {IntensityOf[family]}
            /\ \A r \in RowsOf(s[1]) : Len(planned[r].instance.sets) > 1
            => s[2] = "pass"
    /\ \A s \in report : \A m, n \in RowsOf(s[1]) :
        planned[m].pair # NoValue /\ planned[m].repetition = planned[n].repetition
            /\ FamilyOf(s[1]) \in DOMAIN IntensityOf
            /\ Varied(s[1]) = {IntensityOf[FamilyOf(s[1])]}
        => SharedDraws(planned[m], planned[n])
=============================================================================
