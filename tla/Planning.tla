------------------------------ MODULE Planning ------------------------------
(***************************************************************************)
(* From a configuration to the runs of a benchmark: config.py expands and  *)
(* checks it, the preview counts its runs, benchmark_planning.py makes the *)
(* instances, with random numbers that some of them share, and the tasks,  *)
(* and benchmark.py refuses a plan with a run twice.                       *)
(*                                                                         *)
(* Hashes are tuples of what they are made from.  A seed of instances is   *)
(* that of its case's place, or of its seed group.                         *)
(***************************************************************************)
EXTENDS InstanceRecords

CONSTANT Configurations   \* what may be in a configuration's file

VARIABLES
    config,     \* the configuration
    stage,      \* how far the command is with it
    cases,      \* what its cases expand to
    preview,    \* the number of runs of each variant, if they were counted
    drawn,      \* what came out of the streams of random numbers so far
    planned,    \* the instances, in their order
    tasks       \* the runs: an instance, a variant, and its seed

planVars == <<config, stage, cases, preview, drawn, planned, tasks>>

-----------------------------------------------------------------------------
(***************************************************************************)
(* The registries: what a generator and an algorithm must and may be given.*)
(***************************************************************************)

Dimensions == {"universe_size", "set_count", "k"}
WithSize == Dimensions \cup {"set_size"}

RequiredParameters ==
    [uniform |-> Dimensions \cup {"density"},
     high_overlap |-> Dimensions \cup {"core_fraction", "core_probability", "peripheral_probability"},
     clustered |-> Dimensions \cup {"clusters", "within_probability", "outside_probability"},
     fixed_size |-> WithSize \cup {"unique_sets"},
     long_tail |-> WithSize \cup {"gamma"},
     duplicate_heavy |-> {"universe_size", "base_set_count", "k", "set_size", "copy_factor"},
     dominated_heavy |-> {"anchor_count", "anchor_size", "k", "child_count"},
     mixed_cluster |-> WithSize \cup {"clusters", "bridge_fraction"},
     controlled_high_overlap |-> WithSize \cup {"shared_core_size"},
     controlled_clustered |-> WithSize \cup {"clusters", "within_core_size"},
     controlled_duplicate |-> WithSize \cup {"copy_factor"},
     controlled_dominated |->
        Dimensions \cup {"anchor_size", "child_size", "dominated_pair_count"},
     controlled_adversarial |-> {"block_size", "distractor_count", "trap_count"},
     adversarial |-> {"block_size"}]

DefaultParameters(family) ==
    CASE family = "uniform" -> [paired_set_size |-> Omitted]
      [] family = "adversarial" ->
            [distractor_count |-> 4, construction_version |-> 1, trap_count |-> Omitted]
      [] OTHER -> <<>>

Parameters(family) == RequiredParameters[family] \cup DOMAIN DefaultParameters(family)
Resolved(family, given) == (given @@ DefaultParameters(family)) @@ [family |-> family]

\* Null is Omitted here: no limit.
TimeLimit == [time_limit_seconds |-> 5]
DefaultOptions ==
    [greedy |-> <<>>, lazy_greedy |-> <<>>, local_search |-> <<>>,
     randomized_greedy |-> [rcl_size |-> 3],
     multi_start_local_search |->
        [restart_count |-> 8, max_iterations_per_restart |-> 1000] @@ TimeLimit,
     brute_force |-> [max_set_count |-> 18] @@ TimeLimit,
     cp_sat_oracle |-> TimeLimit, branch_and_bound |-> TimeLimit,
     branch_and_bound_enhanced |->
        [remove_duplicates |-> TRUE, remove_dominated |-> TRUE,
         bound_strategy |-> "cardinality", ordering_strategy |-> "dynamic_marginal"]
        @@ TimeLimit]

Seeded == {"randomized_greedy", "multi_start_local_search"}

OptionAccepted(name, value) ==
    CASE name \in {"time_limit_seconds", "max_set_count"} -> value = Omitted \/ value > 0
      [] name \in {"rcl_size", "max_iterations_per_restart"} -> value >= 1
      [] name = "restart_count" -> value >= 0
      [] name = "bound_strategy" -> value \in {"suffix_union", "cardinality"}
      [] name = "ordering_strategy" -> value \in {"static_size", "dynamic_marginal"}
      [] name \in {"remove_duplicates", "remove_dominated"} -> value \in BOOLEAN

-----------------------------------------------------------------------------
(***************************************************************************)
(* parse_config.                                                           *)
(***************************************************************************)

\* Version 1 has names only, and two options of all exact algorithms.
LegacyOptions(c, name) ==
    (IF name \in {"brute_force", "branch_and_bound", "branch_and_bound_enhanced"}
        /\ "exact_time_limit_seconds" \in DOMAIN c.legacy
     THEN [time_limit_seconds |-> c.legacy.exact_time_limit_seconds] ELSE <<>>)
    @@ (IF name = "brute_force" /\ "brute_force_set_cutoff" \in DOMAIN c.legacy
        THEN [max_set_count |-> c.legacy.brute_force_set_cutoff] ELSE <<>>)

Adopted(c, a) == (a.options @@ LegacyOptions(c, a.name)) @@ DefaultOptions[a.name]
VariantName(a) == IF a.id = Omitted THEN a.name ELSE a.id
Enabled(c) == {i \in DOMAIN c.algorithms : c.algorithms[i].enabled}
SeedsOf(a) == IF a.seeds = Omitted THEN {Omitted} ELSE ToSet(a.seeds)

\* _parse_options: what is in the file.
OptionsAccepted(a) ==
    \A o \in DOMAIN a.options :
        o \in DOMAIN DefaultOptions[a.name] /\ OptionAccepted(o, a.options[o])

\* validate_options: what is adopted, with the defaults and what version 1 says.
AdoptedAccepted(c, a) ==
    /\ DOMAIN Adopted(c, a) = DOMAIN DefaultOptions[a.name]
    /\ \A o \in DOMAIN DefaultOptions[a.name] : OptionAccepted(o, Adopted(c, a)[o])
    /\ a.seeds # Omitted => a.name \in Seeded

AlgorithmAccepted(c, a) ==
    /\ a.name \in DOMAIN DefaultOptions
    /\ c.version < 3 => a.id = Omitted /\ a.seeds = Omitted
    /\ c.version = 1 => a.enabled /\ DOMAIN a.options = {}
    /\ OptionsAccepted(a) /\ AdoptedAccepted(c, a)
    /\ IF a.name \in Seeded
       THEN a.seeds # Omitted /\ a.seeds # <<>> /\ IsInjective(a.seeds)
       ELSE a.seeds = Omitted

ExecutionKey(c, a) == <<a.name, Adopted(c, a), a.seeds>>

AlgorithmsAccepted(c) ==
    LET all == c.algorithms
    IN  /\ all # <<>> /\ \A i \in DOMAIN all : AlgorithmAccepted(c, all[i])
        /\ Enabled(c) # {}
        /\ IsInjective([i \in DOMAIN all |-> VariantName(all[i])])
        /\ IsInjective([i \in DOMAIN all |-> ExecutionKey(c, all[i])])

\* The product of a case's sweep, whose parameters are sorted.
Swept(c) == {c.sweep[i][1] : i \in DOMAIN c.sweep}

WithDimension(points, dimension) ==
    FlattenSeq([i \in DOMAIN points |->
        [j \in DOMAIN dimension[2] |-> points[i] @@ (dimension[1] :> dimension[2][j])]])

PointsOf(c) == FoldLeft(WithDimension, << <<>> >>, c.sweep)

\* _expanded_case_id.
CaseId(c, point) == <<c.name, point>>

Expanded(c) ==
    [i \in DOMAIN PointsOf(c) |->
        [id |-> CaseId(c, PointsOf(c)[i]), name |-> c.name, family |-> c.family,
         group |-> c.group, parameters |-> c.fixed @@ PointsOf(c)[i]]]

AllCases(c) == FlattenSeq([i \in DOMAIN c.cases |-> Expanded(c.cases[i])])

\* CaseConfig generates an instance, of seed 0, to see whether it can.
CaseAccepted(version, c) ==
    /\ c.family \in DOMAIN RequiredParameters
    /\ version < 3 => c.group = Omitted
    /\ DOMAIN c.fixed \cup Swept(c) \subseteq Parameters(c.family)
    /\ DOMAIN c.fixed \cap Swept(c) = {}
    /\ RequiredParameters[c.family] \subseteq DOMAIN c.fixed \cup Swept(c)
    /\ \A i \in DOMAIN c.sweep : c.sweep[i][2] # <<>>
    /\ \A i \in DOMAIN Expanded(c) :
           ParametersAccepted(Resolved(c.family, Expanded(c)[i].parameters), FALSE)

CasesAccepted(c) ==
    /\ c.cases # <<>> /\ IsInjective([i \in DOMAIN c.cases |-> c.cases[i].name])
    /\ \A i \in DOMAIN c.cases : CaseAccepted(c.version, c.cases[i])
    /\ IsInjective([i \in DOMAIN AllCases(c) |-> AllCases(c)[i].id])

ConfigAccepted(c) ==
    /\ c.version \in 1 .. 3 /\ c.repetitions \in 1 .. 10000
    /\ c.version > 1 => DOMAIN c.legacy = {}
    /\ \A o \in DOMAIN c.legacy : c.legacy[o] > 0
    /\ AlgorithmsAccepted(c) /\ CasesAccepted(c)

-----------------------------------------------------------------------------
(***************************************************************************)
(* Which instances share random numbers.                                   *)
(***************************************************************************)

ResolvedCase(i) == Resolved(cases[i].family, cases[i].parameters)

\* _fixed_size_control_pairs.
IsControl(p) == p.family = "uniform" /\ p.paired_set_size # Omitted
IsTreatment(p) == p.family = "fixed_size" /\ ~p.unique_sets
PairDimensions(p) ==
    <<p.universe_size, p.set_count, p.k,
      IF p.family = "uniform" THEN p.paired_set_size ELSE p.set_size>>

Controls == {i \in DOMAIN cases : IsControl(ResolvedCase(i))}
Treatments == {i \in DOMAIN cases : IsTreatment(ResolvedCase(i))}
Matching(S, i) ==
    {j \in S : PairDimensions(ResolvedCase(j)) = PairDimensions(ResolvedCase(i))}

PairsRefused ==
    \E i \in Controls :
        Cardinality(Matching(Controls, i)) # 1 \/ Cardinality(Matching(Treatments, i)) # 1

SizePaired(i) == i \in Controls \/ (i \in Treatments /\ Matching(Controls, i) # {})

\* _STRUCTURAL_COUPLING_INTENSITY.
IntensityOf ==
    [long_tail |-> "gamma", duplicate_heavy |-> "copy_factor",
     dominated_heavy |-> "child_count", mixed_cluster |-> "bridge_fraction",
     controlled_high_overlap |-> "shared_core_size",
     controlled_clustered |-> "within_core_size", controlled_duplicate |-> "copy_factor",
     controlled_dominated |-> "dominated_pair_count", controlled_adversarial |-> "trap_count"]

Except(p, name) == Restrict(p, DOMAIN p \ {name})

\* _case_seed.
SeedOf(i, r) ==
    IF cases[i].group = Omitted THEN <<"case", i, r>> ELSE <<"group", cases[i].group, r>>

IsSecondTrap(p) == p.family = "adversarial" /\ p.construction_version = 2

InGroup(i) ==
    /\ cases[i].group # Omitted
    /\ cases[i].family \in CoupledFamilies \/ IsSecondTrap(ResolvedCase(i))

\* The pair of a case's instance, if it is coupled, and its coupling's seed.
PairOf(i, r, p) ==
    IF SizePaired(i) THEN <<"fixed_size_uniform", PairDimensions(p), r>>
    ELSE IF InGroup(i) THEN SeedOf(i, r)
    ELSE IF IsSecondTrap(p)
    THEN <<"adversarial", <<p.block_size, p.distractor_count>>, r>>
    ELSE IF p.family \in DOMAIN IntensityOf
    THEN <<p.family, <<cases[i].name, Except(p, IntensityOf[p.family])>>, r>>
    ELSE Omitted

\* Mutant: the intensity is part of what the stream is of.
StreamOfLevel(seed, pair, p) ==
    IF pair = Omitted THEN <<"plain", seed, p>> ELSE <<p.family, pair, p>>

\* What a generator draws depends on its seed, and on the parameters for which
\* it draws: those that set the number or the kind of the draws.
Stream(seed, pair, p) ==
    CASE pair = Omitted -> <<"plain", seed, p>>
      [] p.family \in {"uniform", "fixed_size"} -> <<"paired", pair, <<>> >>
      [] p.family = "adversarial" -> <<"adversarial", pair, Except(p, "trap_count")>>
      [] p.family = "long_tail" -> <<"long_tail", pair, p>>
      [] OTHER -> <<p.family, pair, Except(p, IntensityOf[p.family])>>

-----------------------------------------------------------------------------
(***************************************************************************)
(* The commands.                                                           *)
(***************************************************************************)

PlanInit ==
    /\ config \in Configurations
    /\ stage = "read"
    /\ cases = <<>> /\ preview = Omitted /\ drawn = <<>> /\ planned = <<>> /\ tasks = {}

Parse ==
    /\ stage = "read"
    /\ IF ConfigAccepted(config)
       THEN stage' = "parsed" /\ cases' = AllCases(config)
       ELSE stage' = "refused" /\ UNCHANGED cases
    /\ UNCHANGED <<config, preview, drawn, planned, tasks>>

\* is_eligible.
Eligible(a, count) ==
    LET o == Adopted(config, a)
    IN  "max_set_count" \in DOMAIN o /\ o["max_set_count"] # Omitted
            => count <= o["max_set_count"]

\* plan_benchmark: the number of sets is the same whatever is drawn.
SetCountOf(p) == Len(Generated(p, FALSE, CHOOSE d \in Draws(p, FALSE) : TRUE).sets)

\* Mutant: one run of an instance, whatever the seeds.
RunsOfCase(a, count) == IF Eligible(a, count) THEN config.repetitions ELSE 0

RunsCounted(a, count) ==
    IF Eligible(a, count) THEN config.repetitions * Cardinality(SeedsOf(a)) ELSE 0

Counts(sizes) ==
    [i \in Enabled(config) |->
        MapThenSumSet(LAMBDA j : RunsCounted(config.algorithms[i], sizes[j]), DOMAIN sizes)]

Preview ==
    /\ stage = "parsed" /\ preview = Omitted
    /\ IF PairsRefused
       THEN stage' = "refused" /\ UNCHANGED preview
       ELSE \E sizes \in {[i \in DOMAIN cases |-> SetCountOf(ResolvedCase(i))]} :
                preview' = Counts(sizes) /\ UNCHANGED stage
    /\ UNCHANGED <<config, cases, drawn, planned, tasks>>

\* _instances_for_config, without a preview before it too.
Start ==
    /\ stage = "parsed"
    /\ stage' = IF PairsRefused THEN "failed" ELSE "planning"
    /\ UNCHANGED <<config, cases, preview, drawn, planned, tasks>>

AllPlanned == Len(planned) = Len(cases) * config.repetitions
NextCase == (Len(planned) \div config.repetitions) + 1
NextRepetition == Len(planned) % config.repetitions

\* A stream begins again with the same numbers.
DrawsFrom(stream, p, coupled) ==
    IF stream \in DOMAIN drawn THEN {drawn[stream]} ELSE Draws(p, coupled)

\* CaseConfig.generate: the registry checks the parameters, the generator
\* again, with its coupling, and the instance itself.
Made(p, coupled, d) == IF ParametersAccepted(p, coupled) THEN Generated(p, coupled, d) ELSE Omitted

PlannedFrom(i, r, pair, x) ==
    [case |-> i, repetition |-> r, instance |-> x, seed |-> SeedOf(i, r),
     pair |-> pair, coupling |-> pair, used |-> pair]

Generate(i, r, p, pair) ==
    \E stream \in {Stream(SeedOf(i, r), pair, p)} :
    \E d \in DrawsFrom(stream, p, pair # Omitted) :
    \E x \in {Made(p, pair # Omitted, d)} : \E sound \in {x # Omitted /\ Sound(x)} :
        /\ stage' = IF sound THEN "planning" ELSE "failed"
        /\ drawn' = drawn @@ (stream :> d)
        /\ planned' = IF sound THEN Append(planned, PlannedFrom(i, r, pair, x)) ELSE planned

PlanInstance ==
    /\ stage = "planning" /\ ~AllPlanned
    /\ \E i \in {NextCase}, r \in {NextRepetition} :
       \E p \in {ResolvedCase(i)} : \E pair \in {PairOf(i, r, p)} : Generate(i, r, p, pair)
    /\ UNCHANGED <<config, cases, preview, tasks>>

\* _instance_record of every instance.
Record ==
    /\ stage = "planning" /\ AllPlanned
    /\ stage' = IF \E i \in DOMAIN planned : PlannedRefused(planned[i])
                THEN "failed" ELSE "recorded"
    /\ UNCHANGED <<config, cases, preview, drawn, planned, tasks>>

\* _tasks_for_config, and run_id.
AllTasks ==
    {t \in (DOMAIN planned) \X Enabled(config) \X
             UNION {SeedsOf(config.algorithms[i]) : i \in Enabled(config)} :
        LET a == config.algorithms[t[2]]
        IN  t[3] \in SeedsOf(a) /\ Eligible(a, Len(planned[t[1]].instance.sets))}

InstanceId(n) == <<n.instance, n.seed, n.used>>
RunId(t) ==
    LET a == config.algorithms[t[2]]
    IN  <<InstanceId(planned[t[1]]), a.name, Adopted(config, a), t[3]>>

Schedule ==
    /\ stage = "recorded"
    /\ \E all \in {AllTasks} :
           IF Cardinality({RunId(t) : t \in all}) # Cardinality(all)
           THEN stage' = "duplicates" /\ UNCHANGED tasks
           ELSE stage' = "ready" /\ tasks' = all
    /\ UNCHANGED <<config, cases, preview, drawn, planned>>

PlanNext == Parse \/ Preview \/ Start \/ PlanInstance \/ Record \/ Schedule

-----------------------------------------------------------------------------
\* Two variants of an algorithm with one seed, or cases of a group that are the
\* same but for their names, and that share their random numbers whatever they
\* are called.
TwinVariants ==
    \E i, j \in Enabled(config) :
        LET a == config.algorithms[i]
            b == config.algorithms[j]
        IN  /\ i # j /\ a.name = b.name /\ a.name \in Seeded
            /\ Adopted(config, a) = Adopted(config, b)
            /\ SeedsOf(a) \cap SeedsOf(b) # {}

TwinCases ==
    \E i, j \in DOMAIN cases :
        /\ i # j /\ cases[i].group # Omitted /\ cases[i].group = cases[j].group
        /\ cases[i].family = cases[j].family /\ ResolvedCase(i) = ResolvedCase(j)
        /\ ~SizePaired(i) /\ (InGroup(i) \/ cases[i].family \notin DOMAIN IntensityOf)
        /\ \E a \in Enabled(config) :
               Eligible(config.algorithms[a], SetCountOf(ResolvedCase(i)))

CountsKept ==
    preview = [i \in Enabled(config) |-> Cardinality({t \in tasks : t[2] = i})]

\* What the preview accepted can be run, with as many runs as it counted: no
\* generator, certificate or record refuses what it has to make of it.  What it
\* does not see are runs that are there twice, which it counts and the
\* benchmark refuses.
PreflightPromises ==
    /\ stage = "failed" => preview = Omitted /\ PairsRefused
    /\ stage = "duplicates" => TwinVariants \/ TwinCases
    /\ stage = "ready" => ~TwinVariants /\ ~TwinCases
    /\ stage = "ready" /\ preview # Omitted => CountsKept
=============================================================================
