------------------------------ MODULE Coverage ------------------------------
(***************************************************************************)
(* Maximum Coverage: choose k of the given sets so that they cover as many *)
(* elements as possible (src/src/maxcover/model.py).  Bitsets are sets.    *)
(***************************************************************************)
EXTENDS Naturals, FiniteSets, Sequences

CONSTANTS
    Universe,   \* the elements
    Instances   \* the instances that may be solved: records of sets and k

ASSUME CoverageAssumption ==
    /\ IsFiniteSet(Universe) /\ Universe # {}
    /\ \A p \in Instances :
           p.sets \in Seq(SUBSET Universe) /\ p.k \in 1 .. Len(p.sets)

Indices(p) == DOMAIN p.sets

\* coverage_mask and coverage.
Union(p, S) == UNION {p.sets[i] : i \in S}
Value(p, S) == Cardinality(Union(p, S))

\* The marginal gain of a set over what is covered.
Gain(p, covered, i) == Cardinality(p.sets[i] \ covered)

\* What an instance asks for.
Selections(p) == {S \in SUBSET Indices(p) : Cardinality(S) = p.k}
IsOptimum(p, v) ==
    /\ \E S \in Selections(p) : Value(p, S) = v
    /\ \A S \in Selections(p) : Value(p, S) <= v

=============================================================================
