------------------------------ MODULE MCSolvers ------------------------------
(***************************************************************************)
(* Instances for TLC of the solvers, and of what plans their runs.  They   *)
(* share no state here, so that a behaviour is one of a service that it    *)
(* chooses at first: it solves an instance, or plans a configuration.      *)
(***************************************************************************)
EXTENDS Solvers, Audit

CONSTANTS e1, e2, e3, e4

FourElements == {e1, e2, e3, e4}

\* Families in which sets repeat, contain each other, and mislead greedy.
Pool == {{e1}, {e1, e2}, {e2, e3}, {e3, e4}, {e1, e2, e3}}
FourSets == {[sets |-> f, k |-> b] : f \in [1 .. 4 -> Pool], b \in 2 .. 3}

\* One start, several, and the run without limits that restart_count 0 means.
SomePlans ==
    [restarts : {0}, limit : {1}, timed : BOOLEAN]
        \cup [restarts : {2}, limit : {1, 3}, timed : {TRUE}]

-----------------------------------------------------------------------------
(* Configurations to be planned and audited.                               *)

\* Orders and swaps: as they are, backwards, and from the ends of both halves.
FromEnds(n) ==
    [i \in 1 .. n |-> IF i % 2 = 1 THEN n \div 2 - (i + 1) \div 2 ELSE n - i \div 2]
SomeShuffles ==
    [n \in 1 .. 28 |->
        {[i \in 1 .. n |-> i - 1], [i \in 1 .. n |-> n - i]}
            \cup (IF n >= 6 /\ n % 2 = 0 THEN {FromEnds(n)} ELSE {})]
SomeSwaps ==
    [n \in 0 .. 6 |->
        {[i \in 1 .. n |-> i - 1], [i \in 1 .. n |-> n - 1],
         [i \in 1 .. n |-> IF i < n THEN i ELSE i - 1]}]

-----------------------------------------------------------------------------
Variant(name) ==
    [name |-> name, id |-> Omitted, enabled |-> TRUE, options |-> <<>>, seeds |-> Omitted]
Randomized(id, seeds) == [Variant("randomized_greedy") EXCEPT !.id = id, !.seeds = seeds]
BruteForce(given) == [Variant("brute_force") EXCEPT !.options = given]

TwoVariants == <<BruteForce([max_set_count |-> 4]), Randomized(Omitted, <<1, 2>>)>>

Case(name, family, fixed, sweep) ==
    [name |-> name, family |-> family, fixed |-> fixed, sweep |-> sweep, group |-> Omitted]
Grouped(group, case) == [case EXCEPT !.group = group]
File(list) ==
    [version |-> 3, repetitions |-> 1, legacy |-> <<>>, algorithms |-> TwoVariants, cases |-> list]
Twice(file) == [file EXCEPT !.repetitions = 2]

Sized(u, m, k, size) == [universe_size |-> u, set_count |-> m, k |-> k, set_size |-> size]

\* One scan of each family.
CoreScan == Case("core", "controlled_high_overlap", Sized(8, 3, 2, 2), <<<<"shared_core_size", <<0, 1>>>>>>)
ClusterScan ==
    Case("cluster", "controlled_clustered", Sized(18, 4, 2, 3) @@ [clusters |-> 2],
         <<<<"within_core_size", <<0, 1, 2>>>>>>)
DuplicateScan ==
    Case("copies", "controlled_duplicate", Sized(8, 4, 2, 2), <<<<"copy_factor", <<1, 2, 4>>>>>>)
DominatedScan ==
    Case("children", "controlled_dominated",
         [universe_size |-> 8, set_count |-> 4, k |-> 2, anchor_size |-> 3, child_size |-> 1],
         <<<<"dominated_pair_count", <<0, 1, 2>>>>>>)
TrapScan(block, count, traps) ==
    Case("trap", "controlled_adversarial", [block_size |-> block, distractor_count |-> count],
         <<<<"trap_count", traps>>>>)
SecondTrap(block, count, traps) ==
    Case("second", "adversarial",
         [block_size |-> block, distractor_count |-> count, construction_version |-> 2],
         <<<<"trap_count", traps>>>>)
FirstTrap == Case("first", "adversarial", [block_size |-> 4, distractor_count |-> 1], <<>>)
CopyScan ==
    Case("heavy", "duplicate_heavy",
         [universe_size |-> 4, base_set_count |-> 2, k |-> 2, set_size |-> 2],
         <<<<"copy_factor", <<1, 2>>>>>>)
ChildScan ==
    Case("anchors", "dominated_heavy", [anchor_count |-> 2, anchor_size |-> 3, k |-> 2],
         <<<<"child_count", <<0, 1, 2>>>>>>)
BridgeScan ==
    Case("bridges", "mixed_cluster", Sized(6, 2, 2, 2) @@ [clusters |-> 2],
         <<<<"bridge_fraction", << <<0, 1>>, <<1, 2>>, <<1, 1>> >> >>>>)
TailScan ==
    Case("tail", "long_tail", Sized(3, 2, 1, 2), <<<<"gamma", << <<0, 1>>, <<2, 1>> >> >>>>)
HighScan ==
    Case("high", "high_overlap",
         [universe_size |-> 3, set_count |-> 2, k |-> 1,
          core_probability |-> <<1, 1>>, peripheral_probability |-> <<1, 2>>],
         <<<<"core_fraction", << <<1, 3>>, <<2, 3>> >> >>>>)
IntervalScan ==
    Case("intervals", "clustered",
         [universe_size |-> 4, set_count |-> 4, k |-> 2, clusters |-> 2,
          within_probability |-> <<1, 1>>],
         <<<<"outside_probability", << <<0, 1>>, <<1, 2>> >> >>>>)
Treatment == Case("fixed", "fixed_size", Sized(4, 2, 1, 2) @@ [unique_sets |-> FALSE], <<>>)
AllDistinct == Case("distinct", "fixed_size", Sized(4, 3, 2, 2) @@ [unique_sets |-> TRUE], <<>>)
Control ==
    Case("control", "uniform",
         [universe_size |-> 4, set_count |-> 2, k |-> 1, density |-> <<482, 1000>>,
          paired_set_size |-> 2], <<>>)
Plainly ==
    Case("plain", "uniform",
         [universe_size |-> 2, set_count |-> 2, k |-> 1, density |-> <<1, 2>>], <<>>)

\* The density at which four elements give sets of two, roughly.
SomeRoots == [q \in {<<4, 2>>} |-> <<482, 1000>>]

-----------------------------------------------------------------------------
\* Files that are accepted, and their twins and refused relatives.
Scanned ==
    {CoreScan, [CoreScan EXCEPT !.fixed = Sized(8, 1, 1, 2)], ClusterScan, DuplicateScan,
     DominatedScan, TrapScan(5, 2, <<3, 4>>), TrapScan(6, 1, <<4, 5>>), SecondTrap(4, 1, <<3, 4>>),
     SecondTrap(5, 1, <<3, 4, 5>>),
     FirstTrap, CopyScan, ChildScan, BridgeScan, TailScan, HighScan, IntervalScan, AllDistinct}

TwoParameters ==
    Case("both", "controlled_high_overlap", [universe_size |-> 8, set_count |-> 3, set_size |-> 2],
         <<<<"k", <<1, 2>>>>, <<"shared_core_size", <<0, 1>>>>>>)

Lists ==
    {<<c>> : c \in Scanned}
        \cup {<<TwoParameters>>, <<Treatment, Control>>, <<Control>>, <<Treatment, Treatment>>,
              <<Treatment, [Treatment EXCEPT !.name = "again"], Control>>, <<Plainly, FirstTrap>>,
              <<Grouped("g", CopyScan), Grouped("g", [ChildScan EXCEPT !.name = "other"])>>,
              <<Grouped("g", SecondTrap(4, 1, <<3, 4>>)),
                Grouped("g", [SecondTrap(4, 1, <<4>>) EXCEPT !.name = "twin"])>>,
              <<Grouped("g", CoreScan), Grouped("g", [CoreScan EXCEPT !.name = "no_twin"])>>,
              <<Grouped("g", Plainly), Grouped("g", [Plainly EXCEPT !.name = "twin"])>>,
              <<Grouped("g", Plainly), Grouped("h", [Plainly EXCEPT !.name = "no_twin"])>>,
              <<[CoreScan EXCEPT !.sweep = <<<<"shared_core_size", <<1, 1>>>>>>]>>,
              <<[CoreScan EXCEPT !.sweep = <<<<"shared_core_size", <<1, 2>>>>>>]>>,
              <<[CoreScan EXCEPT !.fixed = Sized(7, 3, 2, 2)]>>,
              <<[CoreScan EXCEPT !.sweep = <<>>]>>}

Legacy ==
    [File(<<FirstTrap>>) EXCEPT !.version = 1, !.legacy = [brute_force_set_cutoff |-> 3],
        !.algorithms = <<Variant("greedy"), Variant("brute_force")>>]

SeedLists == {<<1>>, <<1, 2>>, <<2, 1>>, <<3>>, <<>>, <<1, 1>>}
TwoRandomized ==
    {[File(<<FirstTrap>>) EXCEPT
        !.algorithms = <<Randomized("r", x), [Randomized("s", y) EXCEPT !.options = o]>>] :
        x \in {<<1>>, <<1, 2>>}, y \in SeedLists, o \in {<<>>, [rcl_size |-> 3], [rcl_size |-> 2]}}

SomeConfigurations ==
    {File(list) : list \in Lists} \cup {Twice(File(<<TrapScan(5, 2, <<3, 4>>)>>)), Legacy,
        [Legacy EXCEPT !.version = 2], [Legacy EXCEPT !.version = 2, !.legacy = <<>>],
        [Legacy EXCEPT !.algorithms = <<Variant("randomized_greedy")>>],
        [File(<<FirstTrap>>) EXCEPT !.algorithms = <<[Variant("greedy") EXCEPT !.enabled = FALSE]>>],
        [File(<<FirstTrap>>) EXCEPT !.repetitions = 0],
        Twice(File(<<Grouped("g", CopyScan)>>)), Twice(File(<<Plainly>>))}
        \cup TwoRandomized

TwoPercent == <<1, 50>>

-----------------------------------------------------------------------------
VARIABLE service

allVars == <<service, vars, planVars, report>>

NoPlan ==
    /\ config = Omitted /\ stage = "none" /\ cases = <<>> /\ preview = Omitted
    /\ drawn = <<>> /\ planned = <<>> /\ tasks = {} /\ report = {}

NoSolver ==
    inst = (CHOOSE p \in FourSets : TRUE) /\ algorithm = "cp_sat_oracle" /\ Init

MCInit ==
    \/ service = "solve" /\ Init /\ NoPlan
    \/ service = "plan" /\ NoSolver /\ AuditInit

Solve(A) == service = "solve" /\ A /\ UNCHANGED <<service, planVars, report>>

MCNext ==
    \/ Solve(Next)
    \/ service = "plan" /\ AuditNext /\ UNCHANGED <<service, vars>>

MCSpec == MCInit /\ [][MCNext]_allVars /\ WF_allVars(Solve(Step))

SolversEnd == service = "solve" => TasksEnd
=============================================================================
