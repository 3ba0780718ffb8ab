----------------------------- MODULE References -----------------------------
(***************************************************************************)
(* What a finished benchmark knows of the optima.  Its results are one     *)
(* record for each run of the plan; _normalize_optima takes the optimum of *)
(* an instance from a certificate of its generator or from an algorithm    *)
(* that says optimal, and four tables tell on which instances there is     *)
(* one, and how those without differ.                                      *)
(***************************************************************************)
EXTENDS Floats

CONSTANTS
    Instances,   \* the generated instances of one configuration
    Of,          \* their records: case, family, parameters, size, measurements
    Algorithms,  \* the algorithm identifiers of the enabled variants
    Variant,     \* their registry name, seeds, and limits of time and number of sets
    Measures,    \* the measurements compared by the censoring-bias table
    Absent       \* a blank field

VARIABLES
    results,      \* a run's record, by instance, variant and seed
    certificate,  \* known_optimum of an instance record
    optimum,      \* the normalised optimum of an instance
    gap           \* the relative gap of a run, as raw_results.csv holds it

Exact == {"brute_force", "cp_sat_oracle", "branch_and_bound", "branch_and_bound_enhanced"}
Seeded == {"randomized_greedy", "multi_start_local_search"}
Statuses == {"optimal", "feasible", "timeout", "error"}
Completed == {"optimal", "feasible"}
Counts == Nat \cup {Absent}

ASSUME InstancesAssumption ==
    /\ \A i \in Instances :
        /\ Of[i].universe \in Nat \ {0} /\ Of[i].sets \in Nat \ {0}
        /\ DOMAIN Of[i].measures = Measures
    \* A case fixes its family, its parameters and so the number of sets.
    /\ \A i, j \in Instances : Of[i].case = Of[j].case =>
        /\ Of[i].family = Of[j].family /\ Of[i].parameters = Of[j].parameters
        /\ Of[i].sets = Of[j].sets

ASSUME VariantsAssumption ==
    /\ Absent \notin Nat \cup (Nat \X Nat)
    /\ IsFiniteSet(Instances) /\ IsFiniteSet(Algorithms)
    /\ \A a \in Algorithms :
        /\ Variant[a].limit \in Counts \ {0}
        /\ Variant[a].seconds # Absent => Less(Zero, Variant[a].seconds)
        /\ Variant[a].seeds # {} /\ Variant[a].seeds \subseteq Counts
        /\ Variant[a].name \notin Seeded => Variant[a].seeds = {Absent}

IsExact(a) == Variant[a].name \in Exact
Eligible(i, a) == Variant[a].limit = Absent \/ Of[i].sets <= Variant[a].limit

\* The tasks of the configuration.
Plan ==
    {p \in Instances \X Algorithms \X UNION {Variant[a].seeds : a \in Algorithms} :
        Eligible(p[1], p[2]) /\ p[3] \in Variant[p[2]].seeds}

RunsOf(i) == {p \in Plan : p[1] = i}

\* A float is precise enough for the quotients of two counts of instances or
\* runs, or of the parts of a universe: they are fractions between zero and one,
\* with their decimals too, and only that of nothing is zero.  Rounding the
\* quotients of counts of instances keeps their order.
ASSUME QuotientsAssumption ==
    /\ IsFiniteSet(Plan)
    /\ \A total \in 1 .. Cardinality(Instances) + Cardinality(Plan) :
        \A n \in 0 .. total : Precise(n, total)
    /\ \A i \in Instances : \A total \in 1 .. Of[i].universe : \A n \in 0 .. total :
        Precise(n, total)
    /\ \A total \in 1 .. Cardinality(Instances) : \A n \in 0 .. total : \A m \in 0 .. n :
        AtMost(Fl(<<m, total>>), Fl(<<n, total>>))

\* The rate of a count, blank when there is nothing to count, and its contract.
Rate(n, total) == IF total = 0 THEN Absent ELSE Fl(<<n, total>>)
RateAccepted(x, n, total) ==
    IF total = 0 THEN x = Absent ELSE x # Absent /\ InUnit(x) /\ Close(x, Fl(<<n, total>>))

Result ==
    [status : Statuses, coverage : Counts, bound : Counts,
     runtime : Nat \X Nat, nodes : Nat]

\* What a RunRecord of instance i may say.
RecordAccepted(r, i) ==
    /\ {r.coverage, r.bound} \subseteq 0 .. Of[i].universe \cup {Absent}
    /\ r.status = "error" => r.coverage = Absent /\ r.bound = Absent
    /\ r.status # "error" => r.coverage # Absent
    /\ r.status = "optimal" => r.bound = r.coverage
    /\ r.status \in {"feasible", "timeout"} => r.bound = Absent \/ r.bound > r.coverage

-----------------------------------------------------------------------------
(***************************************************************************)
(* _normalize_optima.                                                      *)
(***************************************************************************)

\* What the algorithms say the optimum of an instance is.
Claimed(i) == {results[p].coverage : p \in {q \in RunsOf(i) : results[q].status = "optimal"}}

Optimum(i) ==
    IF certificate[i] # Absent THEN certificate[i]
    ELSE IF Claimed(i) # {} THEN CHOOSE v \in Claimed(i) : TRUE
    ELSE Absent

ClaimsDisagree(i) ==
    \/ \E v, w \in Claimed(i) : v # w
    \/ certificate[i] # Absent /\ \E v \in Claimed(i) : v # certificate[i]

\* Mutant: only the bounds of proved optima are compared with the certificate.
ProvedBelowCertificate(i) ==
    certificate[i] # Absent /\ \E v \in Claimed(i) : v < certificate[i]

BoundBelowCertificate(i) ==
    certificate[i] # Absent
        /\ \E p \in RunsOf(i) : results[p].bound # Absent /\ results[p].bound < certificate[i]

CoverageAboveOptimum(i) ==
    Optimum(i) # Absent
        /\ \E p \in RunsOf(i) :
            results[p].coverage # Absent /\ results[p].coverage > Optimum(i)

OptimaRefused ==
    \E i \in Instances :
        ClaimsDisagree(i) \/ BoundBelowCertificate(i) \/ CoverageAboveOptimum(i)

\* The gap that a row is given, once it was written and read.
RowGap(best, coverage) ==
    IF best \notin {Absent, 0} /\ coverage # Absent THEN Dec(Fl(<<best - coverage, best>>))
    ELSE Absent

-----------------------------------------------------------------------------
(***************************************************************************)
(* reference_status.csv: the proofs of each instance.                      *)
(***************************************************************************)

ExactVariants == {a \in Algorithms : IsExact(a)}

SolverStatus(i, a) ==
    IF Eligible(i, a) THEN results[<<i, a, Absent>>].status ELSE "not_run"

Provers(i) == {a \in ExactVariants : SolverStatus(i, a) = "optimal"}
Certified(i) == certificate[i] # Absent
Certificate == "known_optimum_certificate"

\* The proofs by their identifiers, and how many there are.
Sources(i) == Provers(i) \cup (IF Certified(i) THEN {Certificate} ELSE {})
SourceCount(i) == Cardinality(Provers(i)) + (IF Certified(i) THEN 1 ELSE 0)
Proved(i) == SourceCount(i) > 0

\* The first that applies, from the best reference to none at all.
ReferenceStatuses ==
    <<Certificate, "optimal", "feasible", "timeout", "error", "not_run">>

ReferenceStatus(i) ==
    LET holds(s) ==
            CASE s = Certificate -> Certified(i)
              [] s = "not_run" -> TRUE
              [] OTHER -> \E a \in ExactVariants : SolverStatus(i, a) = s
    IN  ReferenceStatuses[CHOOSE n \in 1 .. 6 :
            holds(ReferenceStatuses[n]) /\ \A m \in 1 .. n - 1 : ~holds(ReferenceStatuses[m])]

ReferenceOptimum(i) ==
    IF Certified(i) THEN certificate[i]
    ELSE IF Provers(i) # {} THEN results[<<i, CHOOSE a \in Provers(i) : TRUE, Absent>>].coverage
    ELSE Absent

CrossValidation(number) ==
    CASE number = 0 -> "not_available" [] number = 1 -> "single_source" [] OTHER -> "agreement"

SmallCrossValidated(i) ==
    LET names == {Variant[a].name : a \in Provers(i)}
    IN  "brute_force" \in names /\ names # {"brute_force"}

StatusRecord(i) ==
    [status |-> ReferenceStatus(i), solvers |-> {SolverStatus(i, a) : a \in ExactVariants},
     sources |-> Sources(i), number |-> SourceCount(i), certified |-> Certified(i),
     proved |-> Proved(i), optimum |-> ReferenceOptimum(i),
     validation |-> CrossValidation(SourceCount(i)), small |-> SmallCrossValidated(i)]

StatusAccepted(r) ==
    /\ r.solvers \subseteq Statuses \cup {"not_run"}
    /\ r.status \in Statuses \cup {Certificate, "not_run"}
    /\ r.number = Cardinality(r.sources)
    /\ r.validation = CrossValidation(r.number)
    /\ r.proved <=> r.number > 0
    /\ r.proved <=> r.optimum # Absent
    /\ r.optimum # Absent => r.optimum >= 0
    /\ r.certified <=> Certificate \in r.sources
    /\ r.status = Certificate => r.certified
    /\ r.proved <=> r.status \in {Certificate, "optimal"}
    /\ r.small => r.number >= 2

-----------------------------------------------------------------------------
(***************************************************************************)
(* The tables by family and parameters: how many instances have which      *)
(* reference, what the instances without one are like, and what each exact *)
(* algorithm contributes.                                                  *)
(***************************************************************************)

Groups == {<<Of[i].family, Of[i].parameters>> : i \in Instances}
Members(g) == {i \in Instances : <<Of[i].family, Of[i].parameters>> = g}
CasesIn(g) == {Of[i].case : i \in Members(g)}

\* One record for each reference status.
ReferenceCoverage(g, s) ==
    LET total == Cardinality(Members(g))
        with == Quantify(Members(g), LAMBDA i : ReferenceStatus(i) = s)
        proved == Quantify(Members(g), Proved)
    IN  [cases |-> Cardinality(CasesIn(g)), status |-> s, generated |-> total,
         with |-> with, rate |-> Rate(with, total),
         proved |-> proved, coverage |-> Rate(proved, total),
         certificates |-> Quantify(Members(g), Certified),
         solved |-> Quantify(Members(g), LAMBDA i : Provers(i) # {}),
         agreed |-> Quantify(Members(g), LAMBDA i :
             CrossValidation(SourceCount(i)) = "agreement")]

CoverageAccepted(c) ==
    /\ c.status \in Statuses \cup {Certificate, "not_run"}
    /\ c.cases > 0 /\ c.generated > 0
    /\ {c.with, c.proved, c.certificates, c.solved, c.agreed} \subseteq 0 .. c.generated
    /\ RateAccepted(c.rate, c.with, c.generated)
    /\ RateAccepted(c.coverage, c.proved, c.generated)

\* The mean of a measurement over the instances with a reference and without.
Bias(g, m) ==
    LET observed(S) == {i \in S : Of[i].measures[m] # Absent}
        retained == {i \in Members(g) : Proved(i)}
        excluded == Members(g) \ retained
        mean(S) == IF observed(S) = {} THEN Absent
                   ELSE Mean({<<i, Of[i].measures[m]>> : i \in observed(S)})
        both == observed(retained) # {} /\ observed(excluded) # {}
    IN  [cases |-> Cardinality(CasesIn(g)),
         retained |-> Cardinality(retained), excluded |-> Cardinality(excluded),
         retainedSample |-> Cardinality(observed(retained)),
         excludedSample |-> Cardinality(observed(excluded)),
         retainedMean |-> mean(retained), excludedMean |-> mean(excluded),
         difference |-> IF both THEN Difference(mean(excluded), mean(retained)) ELSE Absent,
         status |-> IF both THEN "estimable" ELSE "missing_group"]

BiasAccepted(b) ==
    /\ b.cases > 0
    /\ b.retainedSample \in 0 .. b.retained /\ b.excludedSample \in 0 .. b.excluded
    /\ b.status = IF b.retainedSample > 0 /\ b.excludedSample > 0 THEN "estimable"
                  ELSE "missing_group"
    /\ IF b.status = "estimable"
       THEN /\ b.retainedMean # Absent /\ b.excludedMean # Absent /\ b.difference # Absent
            /\ Close(b.difference, Difference(b.excludedMean, b.retainedMean))
       ELSE b.difference = Absent

Cutoff(g, a) ==
    LET total == Cardinality(Members(g))
        number(s) == Quantify(Members(g), LAMBDA i : SolverStatus(i, a) = s)
        effective == Quantify(Members(g), LAMBDA i :
                         Certified(i) \/ SolverStatus(i, a) = "optimal")
    IN  [cases |-> Cardinality(CasesIn(g)), seconds |-> Variant[a].seconds,
         limit |-> Variant[a].limit, generated |-> total, eligible |-> total - number("not_run"),
         optimal |-> number("optimal"), feasible |-> number("feasible"),
         timeout |-> number("timeout"), error |-> number("error"),
         notRun |-> number("not_run"), certificates |-> Quantify(Members(g), Certified),
         solver |-> Rate(number("optimal"), total), effective |-> Rate(effective, total)]

\* The effective coverage is a rate whose count is not recorded.
CutoffAccepted(c) ==
    /\ c.cases > 0 /\ c.generated > 0
    /\ c.seconds # Absent => Less(Zero, c.seconds)
    /\ c.limit # Absent => c.limit > 0
    /\ {c.eligible, c.optimal, c.feasible, c.timeout, c.error, c.notRun, c.certificates}
        \subseteq 0 .. c.generated
    /\ c.eligible + c.notRun = c.generated
    /\ c.optimal + c.feasible + c.timeout + c.error = c.eligible
    /\ RateAccepted(c.solver, c.optimal, c.generated)
    /\ InUnit(c.effective) /\ AtMost(c.solver, c.effective)
=============================================================================
