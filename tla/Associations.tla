---------------------------- MODULE Associations ----------------------------
(***************************************************************************)
(* The tables by family: how the gaps, runtimes and search nodes of an     *)
(* algorithm go with a measurement of the instances.  Each fits a line to  *)
(* one point for each instance (or for each case of a clustering scan).    *)
(* A line is "blank", "level" (no correlation, slope zero) or "fitted"; of *)
(* a fitted one no number is kept, and of the two sample deviations only   *)
(* whether they are there and zero.  The names of the two empty and of the *)
(* two constant statuses differ between the tables; here they do not.      *)
(***************************************************************************)
EXTENDS Statistics

FamilyVariants ==
    {g \in {Of[i].family : i \in Instances} \X Algorithms :
        \E i \in Instances : Of[i].family = g[1] /\ Eligible(i, g[2])}

UnitsOf(f, a) == {i \in Instances : Of[i].family = f /\ Eligible(i, a)}
RunsOver(f, a) == UNION {RunsOn(i, a) : i \in UnitsOf(f, a)}
CasesOf(S) == {Of[i].case : i \in S}

\* A decimal standard deviation is zero when the decimals are all the same
\* (of fewer than four of them), a sum of squares when each is the mean.
Same(x) == \A s, t \in x : s[2] = t[2]
AtMean(x) == \A s \in x : s[2] = Mean(x)

\* Two samples of the same units, and whether the table calls each constant.
Fit(x, y, constantX, constantY) ==
    LET size == Cardinality(x)
        level == size > 1 /\ ~constantX /\ constantY
    IN  [eligible |-> size, distinct |-> Cardinality({s[2] : s \in x}),
         means |-> IF size = 0 THEN Absent ELSE <<Dec(Mean(x)), Dec(Mean(y))>>,
         flat |-> IF size > 1 THEN Same(x) ELSE Absent,
         still |-> IF size > 1 THEN Same(y) ELSE Absent,
         line |-> IF size < 2 \/ constantX THEN "blank" ELSE IF level THEN "level" ELSE "fitted",
         intercept |-> IF level THEN Dec(Mean(y)) ELSE Absent,
         status |-> IF size = 0 THEN "no_samples"
                    ELSE IF size = 1 THEN "insufficient_samples"
                    ELSE IF constantX THEN "constant_predictor"
                    ELSE IF constantY THEN "constant_response" ELSE "estimable"]

\* Constant is what has one value.
FitOf(x, y) == Fit(x, y, Same(x), Same(y))

\* The statistics are there for a sample, the deviations for two, and the line
\* is what the deviations say.
LineAccepted(r) ==
    /\ r.means = Absent <=> r.eligible = 0
    /\ r.flat = Absent <=> r.eligible < 2
    /\ r.still = Absent <=> r.eligible < 2
    /\ <<r.line, r.status>> =
        IF r.eligible = 0 THEN <<"blank", "no_samples">>
        ELSE IF r.eligible = 1 THEN <<"blank", "insufficient_samples">>
        ELSE IF r.flat THEN <<"blank", "constant_predictor">>
        ELSE IF r.still THEN <<"level", "constant_response">> ELSE <<"fitted", "estimable">>
    /\ IF r.line = "level" THEN Close(r.intercept, r.means[2]) ELSE r.intercept = Absent

\* The predictor has one value when its deviation is zero, and else more.
DistinctAccepted(r) ==
    /\ r.distinct <= r.eligible
    /\ r.eligible = 0 => r.distinct = 0
    /\ r.eligible > 0 => (r.distinct = 1 <=> r.eligible = 1 \/ r.flat) /\ r.distinct > 0

-----------------------------------------------------------------------------
(***************************************************************************)
(* Gaps against density and against overlap.                               *)
(***************************************************************************)

\* The units with a positive optimum and a gap, and their decimal mean gap.
Usable(S, a) ==
    {i \in S : optimum[i] \notin {Absent, 0} /\ Observed(RunsOn(i, a)) # {}}
UnitGaps(S, a) == {<<i, Dec(Mean(Gaps(RunsOn(i, a))))>> : i \in S}

\* Where the units of a family go that give no point.
Tally(f, a, missing) ==
    LET S == UnitsOf(f, a)
        known == {i \in S : optimum[i] # Absent}
    IN  [cases |-> Cardinality(CasesOf(S)), instances |-> Cardinality(S),
         runs |-> Cardinality(RunsOver(f, a)), timeouts |-> NumberOf(RunsOver(f, a), "timeout"),
         errors |-> NumberOf(RunsOver(f, a), "error"),
         references |-> Cardinality(known), none |-> Cardinality(S \ known),
         zeroOptima |-> Cardinality({i \in S : optimum[i] = 0}),
         unusable |-> Cardinality({i \in known : optimum[i] # 0} \ Usable(S, a)),
         missing |-> Cardinality(missing)]

\* How many points there are, or units that could give one.
TallyAccepted(t, points) ==
    /\ t.cases > 0 /\ t.instances > 0 /\ t.runs >= t.instances
    /\ t.timeouts + t.errors <= t.runs
    /\ t.references + t.none = t.instances
    /\ t.zeroOptima + t.unusable + t.missing + points = t.references

\* This one tests the sums of squares, the others the decimal deviations.
FitOfSquares(x, y) == Fit(x, y, AtMean(x), AtMean(y))

GapDensity(f, a) ==
    LET S == Usable(UnitsOf(f, a), a)
    IN  [tally |-> Tally(f, a, {}),
         fit |-> FitOfSquares({<<i, Dec(Of[i].density)>> : i \in S}, UnitGaps(S, a))]

GapOverlap(f, a) ==
    LET missing == {i \in Usable(UnitsOf(f, a), a) : Of[i].overlap = Absent}
        S == Usable(UnitsOf(f, a), a) \ missing
    IN  [tally |-> Tally(f, a, missing),
         fit |-> FitOf({<<i, Dec(Of[i].overlap)>> : i \in S}, UnitGaps(S, a))]

GapAssociationAccepted(r) ==
    /\ TallyAccepted(r.tally, r.fit.eligible)
    /\ LineAccepted(r.fit) /\ DistinctAccepted(r.fit)
    /\ r.fit.means # Absent => InUnit(r.fit.means[1]) /\ InUnit(r.fit.means[2])

-----------------------------------------------------------------------------
(***************************************************************************)
(* Gaps against the bridge fraction of a mixed_cluster scan: a block holds *)
(* the instances of one repetition, one for each case, and counts when all *)
(* of them have a gap.                                                     *)
(***************************************************************************)

BlocksOf(S) == {Of[i].block : i \in S}
InBlock(S, b) == {i \in S : Of[i].block = b}
Level(S, c) == Dec(Of[CHOOSE i \in S : Of[i].case = c].bridge)

\* What _gap_clustering_association_statistics raises for: a case twice in a
\* block or at two levels, and a block without one of the cases.
LayoutRefused(a) ==
    LET S == UnitsOf("mixed_cluster", a)
    IN  \/ \E i, j \in S : i # j /\ Of[i].block = Of[j].block /\ Of[i].case = Of[j].case
        \/ \E i, j \in S : Of[i].case = Of[j].case /\ Dec(Of[i].bridge) # Dec(Of[j].bridge)
        \/ \E b \in BlocksOf(S) : CasesOf(InBlock(S, b)) # CasesOf(S)

CompleteBlocks(S, a) == {b \in BlocksOf(S) : InBlock(S, b) \subseteq Usable(S, a)}

\* The levels of the cases are recorded, and each is a point when a block counts.
GapClustering(a) ==
    LET S == UnitsOf("mixed_cluster", a)
        blocks == CompleteBlocks(S, a)
        levels == {<<c, Level(S, c)>> : c \in CasesOf(S)}
        inside(c) == {i \in S : Of[i].case = c /\ Of[i].block \in blocks}
        gaps == {<<c, Dec(Mean(UnitGaps(inside(c), a)))>> : c \in CasesOf(S)}
    IN  [tally |-> Tally("mixed_cluster", a, {}),
         levels |-> levels, distinct |-> Cardinality({s[2] : s \in levels}),
         blocks |-> Cardinality(BlocksOf(S)), complete |-> Cardinality(blocks),
         incomplete |-> Cardinality(BlocksOf(S) \ blocks),
         usable |-> Cardinality(Usable(S, a)),
         eligible |-> Cardinality(blocks) * Cardinality(levels),
         fit |-> IF blocks = {} THEN FitOf({}, {}) ELSE FitOf(levels, gaps)]

GapClusteringAccepted(r) ==
    /\ Cardinality(r.levels) = r.tally.cases
    /\ \A s \in r.levels : InUnit(s[2])
    /\ r.distinct = Cardinality({s[2] : s \in r.levels})
    /\ r.blocks > 0 /\ r.tally.instances = r.blocks * r.tally.cases
    /\ TallyAccepted(r.tally, r.usable)
    /\ r.complete + r.incomplete = r.blocks
    /\ r.eligible = r.complete * r.tally.cases /\ r.eligible <= r.usable
    /\ r.fit.eligible = IF r.complete = 0 THEN 0 ELSE r.tally.cases
    /\ LineAccepted(r.fit)
    /\ r.fit.means # Absent => InUnit(r.fit.means[1]) /\ InUnit(r.fit.means[2])

-----------------------------------------------------------------------------
(***************************************************************************)
(* Runtimes against the number of sets and of choices, nodes of the branch *)
(* and bound against the dominated sets.                                   *)
(***************************************************************************)

CompletedUnits(f, a) == {i \in UnitsOf(f, a) : RunsOn(i, a) = With(RunsOn(i, a), Completed)}

RuntimeBy(f, a, sizes) ==
    LET units == UnitsOf(f, a)
        S == CompletedUnits(f, a)
    IN  [cases |-> Cardinality(CasesOf(units)), instances |-> Cardinality(units),
         ran |-> RunCounts(RunsOver(f, a), Completed), incomplete |-> Cardinality(units \ S),
         fit |-> FitOf({<<z[1], <<z[2], 1>>>> : z \in {z \in sizes : z[1] \in S}},
                       {<<i, Dec(Mean(Runtimes(RunsOn(i, a))))>> : i \in S})]

\* The record of k is made from the one of the number of sets, under its contract.
RuntimeSetCount(f, a) == RuntimeBy(f, a, {<<i, Of[i].sets>> : i \in Instances})
RuntimeK(f, a) == RuntimeBy(f, a, {<<i, Of[i].k>> : i \in Instances})

RuntimeAssociationAccepted(r) ==
    /\ r.cases > 0 /\ r.instances > 0 /\ r.ran.runs >= r.instances /\ Partitioned(r.ran)
    /\ r.fit.eligible + r.incomplete = r.instances
    /\ r.fit.eligible <= r.ran.finished
    /\ LineAccepted(r.fit) /\ DistinctAccepted(r.fit)
    /\ r.fit.means # Absent => Less(Zero, r.fit.means[1]) /\ AtMost(Zero, r.fit.means[2])

BranchAndBounds == {"branch_and_bound", "branch_and_bound_enhanced"}

SearchNodes(f, a) ==
    LET units == UnitsOf(f, a)
        S == {i \in units : Row(i, a).status = "optimal"}
    IN  [algorithm |-> Variant[a].name, cases |-> Cardinality(CasesOf(units)),
         instances |-> Cardinality(units), ran |-> RunCounts(RunsOver(f, a), {"optimal"}),
         fit |-> FitOf({<<i, Dec(Of[i].dominated)>> : i \in S},
                       {<<i, <<Row(i, a).nodes, 1>>>> : i \in S})]

SearchNodesAccepted(r) ==
    /\ r.algorithm \in BranchAndBounds
    /\ r.cases > 0 /\ r.instances > 0 /\ r.ran.runs = r.instances /\ Partitioned(r.ran)
    /\ r.fit.eligible = r.ran.finished
    /\ LineAccepted(r.fit) /\ DistinctAccepted(r.fit)
    /\ r.fit.means # Absent => InUnit(r.fit.means[1]) /\ AtMost(Zero, r.fit.means[2])
=============================================================================
