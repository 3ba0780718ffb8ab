----------------------------- MODULE MCAnalyses -----------------------------
(***************************************************************************)
(* Instances for TLC of the two analyses of finished runs: the batch of    *)
(* the DUAL study, on its output directory, and the tables that a          *)
(* benchmark ends with.  They share no state, so that a behaviour is one   *)
(* of the analysis that it chooses at first.                               *)
(***************************************************************************)
EXTENDS DualBatch, Finalization, TLC

CONSTANTS c1, c2, u1, u2, m1, m2

VARIABLE study

TwoSlots == {c1, c2}
TwoGraphs == 1 .. 2
SlotSymmetry == Permutations(Slots)

-----------------------------------------------------------------------------
\* Two instances of a case and one scan of mixed_cluster: one repetition of
\* two cases, the second with more sets than brute force takes.

Uniform ==
    [family |-> "uniform", parameters |-> "p", case |-> "u", universe |-> 4, sets |-> 3, k |-> 2,
     density |-> <<1, 5>>, overlap |-> <<1, 4>>, dominated |-> Zero,
     block |-> Absent, bridge |-> Zero, measures |-> [m \in {"sets"} |-> <<1, 5>>]]
Mixed ==
    [Uniform EXCEPT !.family = "mixed_cluster", !.parameters = "q", !.case = "x", !.block = 1]

FourInstances ==
    u1 :> Uniform
        @@ u2 :> [Uniform EXCEPT !.density = <<2, 5>>, !.overlap = Absent,
                                 !.dominated = <<1, 3>>, !.measures = [m \in {"sets"} |-> Absent]]
        @@ m1 :> Mixed
        @@ m2 :> [Mixed EXCEPT !.parameters = "r", !.case = "y", !.bridge = <<1, 2>>,
                               !.sets = 4, !.k = 3]

Deterministic(name) ==
    [name |-> name, limit |-> Absent, seconds |-> Absent, seeds |-> {Absent}]
SixVariants ==
    "g" :> Deterministic("greedy") @@ "l" :> Deterministic("local_search")
        @@ "r" :> [Deterministic("randomized_greedy") EXCEPT !.seeds = {1, 2}]
        @@ "f" :> [Deterministic("brute_force") EXCEPT !.limit = 3]
        @@ "b" :> [Deterministic("branch_and_bound") EXCEPT !.seconds = <<2, 1>>]
        @@ "e" :> Deterministic("branch_and_bound_enhanced")

\* What a run may report, with 0, 1/2, 1 or 2 seconds.
R(status, coverage, bound, runtime, nodes) ==
    [status |-> status, coverage |-> coverage, bound |-> bound,
     runtime |-> runtime, nodes |-> nodes]
Feasible(v) == R("feasible", v, Absent, <<v, 2>>, 0)
Optimal(v, n) == R("optimal", v, v, One, n)
Timeout(v, b) == R("timeout", v, b, <<2, 1>>, 1)
Error == R("error", Absent, Absent, Zero, 0)

\* The runs of an instance with optimum v, by variant, two for the seeds of "r".
Easy(v) ==
    <<Feasible(v - 1), Feasible(v), <<Feasible(v - 1), Feasible(v)>>,
      Optimal(v, 5), Optimal(v, 4), Optimal(v, 2)>>
Hard(v) ==
    <<Feasible(v - 2), Feasible(v - 1), <<Timeout(v - 2, Absent), Feasible(v - 1)>>,
      Timeout(v - 1, Absent), Timeout(v - 1, v), Timeout(v - 1, v)>>
Failed == <<Error, Feasible(3), <<Error, Error>>, Error, Error, Error>>
Empty == <<Feasible(0), Feasible(0), <<Feasible(0), Feasible(0)>>,
           Optimal(0, 0), Optimal(0, 0), Optimal(0, 0)>>

\* An instance with optimum 3, where everything that can go wrong does.
Varied ==
    {<<g, l, IF l = Error THEN <<Timeout(1, Absent), Feasible(2)>> ELSE <<Feasible(2), l>>,
       f, b, e>> :
        g \in {Feasible(1), Feasible(2), Timeout(1, Absent)}, l \in {Feasible(2), Feasible(3), Error},
        f \in {Optimal(3, 5), Optimal(2, 4), Timeout(2, Absent)},
        b \in {Optimal(3, 3), Timeout(1, 2)},
        e \in {Optimal(3, 2), Timeout(2, 3)}}

\* The others, with the optimum of the last.
Others ==
    {<<Easy(3), Easy(2), Easy(4), 4>>, <<Hard(3), Easy(4), Hard(4), 4>>,
     <<Failed, Easy(2), Empty, 0>>}

AllRuns ==
    {p \in {u1, u2, m1, m2} \X {"g", "l", "r", "f", "b", "e"} \X {Absent, 1, 2} :
        (p[2] = "r" <=> p[3] # Absent) /\ ~(p[1] = m2 /\ p[2] = "f")}

RunOf(runs, a, seed) ==
    LET place == [g |-> 1, l |-> 2, r |-> 3, f |-> 4, b |-> 5, e |-> 6][a]
    IN  IF seed = Absent THEN runs[place] ELSE runs[place][seed]

ManyOutcomes ==
    {LET runs == u1 :> x @@ u2 :> y[1] @@ m1 :> y[2] @@ m2 :> y[3]
     IN  [truth |-> u1 :> 3 @@ u2 :> 3 @@ m1 :> (IF y[2] = Easy(2) THEN 2 ELSE 4) @@ m2 :> y[4],
          certificate |-> [i \in {u1, u2, m1, m2} |-> IF i = u1 THEN c ELSE Absent],
          results |-> [p \in AllRuns |-> RunOf(runs[p[1]], p[2], p[3])]] :
        c \in {Absent, 3, 2}, x \in Varied, y \in Others}

-----------------------------------------------------------------------------
NoTables ==
    /\ results = Absent /\ certificate = Absent /\ optimum = Absent /\ gap = Absent
    /\ truth = Absent /\ written = 0 /\ refused = FALSE /\ verdict = Absent

MCInit ==
    /\ Init
    /\ \/ study = "dual" /\ NoTables
       \/ study = "tables" /\ FinalInit

MCNext ==
    \/ study = "dual" /\ Next /\ UNCHANGED <<study, finalVars>>
    \/ study = "tables" /\ FinalNext /\ UNCHANGED <<study, vars>>

MCSpec == MCInit /\ [][MCNext]_<<study, vars, finalVars>>
=============================================================================
