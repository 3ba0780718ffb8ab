------------------------------ MODULE MCTables ------------------------------
(***************************************************************************)
(* One benchmark of two scans of mixed_cluster, for TLC: three repetitions *)
(* of a case, with the same density and the same coverages, and one of a   *)
(* case that brute force does not take.                                    *)
(***************************************************************************)
EXTENDS Finalization, TLC

\* History: the tables that the normalised results would be refused for, and
\* those that can be written but not read.
VARIABLE refusals

Case ==
    [family |-> "mixed_cluster", parameters |-> "p", case |-> "x", universe |-> 40,
     sets |-> 3, k |-> 2, density |-> <<1, 5>>, overlap |-> <<1, 5>>, dominated |-> Zero,
     block |-> 1, bridge |-> Zero, measures |-> [m \in {"sets"} |-> <<3, 1>>]]

TwoScans ==
    [i \in 1 .. 4 |->
        IF i = 4 THEN [Case EXCEPT !.case = "y", !.parameters = "q", !.block = 4, !.sets = 4]
        ELSE [Case EXCEPT !.block = i]]

\* Two randomized variants, of two and of three seeds.
FiveVariants ==
    [g |-> [name |-> "greedy", limit |-> Absent, seconds |-> Absent, seeds |-> {Absent}],
     l |-> [name |-> "local_search", limit |-> Absent, seconds |-> Absent, seeds |-> {Absent}],
     r |-> [name |-> "randomized_greedy", limit |-> Absent, seconds |-> Absent, seeds |-> {1, 2}],
     s |-> [name |-> "randomized_greedy", limit |-> Absent, seconds |-> Absent, seeds |-> {1, 2, 3}],
     f |-> [name |-> "brute_force", limit |-> 3, seconds |-> Absent, seeds |-> {Absent}]]

AllRuns ==
    {p \in (1 .. 4) \X {"g", "l", "r", "s", "f"} \X {Absent, 1, 2, 3} :
        p[3] \in FiveVariants[p[2]].seeds /\ ~(p[1] = 4 /\ p[2] = "f")}

R(status, coverage, bound) ==
    [status |-> status, coverage |-> coverage, bound |-> bound, runtime |-> One, nodes |-> 1]

RunOf(a, seed) ==
    CASE a = "g" -> R("feasible", 31, Absent)
      [] a = "l" -> R("feasible", 32, Absent)
      [] a = "r" -> R("feasible", 33 - seed, Absent)
      [] a = "s" -> R("feasible", 18, Absent)
      [] a = "f" -> R("optimal", 33, 33)

OneOutcome ==
    {[truth |-> [i \in 1 .. 4 |-> 33], certificate |-> [i \in 1 .. 4 |-> Absent],
      results |-> [p \in AllRuns |-> RunOf(p[2], p[3])]]}

Names == {Files[n] : n \in DOMAIN Files}

TablesInit == FinalInit /\ refusals = {}

\* Every table is looked at, not only those up to the first that is refused.
Inspect ==
    /\ written = 1
    /\ refusals' =
        {<<f, "refused">> : f \in {f \in Names : TableRefused(f)}}
            \cup {<<f, "unreadable">> : f \in {f \in Names : ~Readable(f)}}
    /\ UNCHANGED finalVars

TablesNext == (Normalize /\ UNCHANGED refusals) \/ Inspect

TablesSpec == TablesInit /\ [][TablesNext]_<<finalVars, refusals>>

\* The runner writes every table of a completed benchmark whose results are all
\* in order, and what it writes can be read; in a benchmark with a certain layout
\* and certain gaps it does not.
HonestTablesAccepted == Honest => refusals = {}
=============================================================================
