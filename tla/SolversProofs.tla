---------------------------- MODULE SolversProofs ----------------------------
(***************************************************************************)
(* Proofs that the result of every algorithm is one that AlgorithmSpec.run *)
(* and Solution accept, that a bound in it is above all selections, and    *)
(* that lazy_greedy selects what greedy selects, for every instance.       *)
(*                                                                         *)
(* For lazy_greedy: gains only shrink as more is covered, so that the      *)
(* bounds in the heap stay upper bounds, and a gain ahead of all of them   *)
(* is ahead of all gains.                                                  *)
(*                                                                         *)
(* For branch and bound: whatever selection is taken, it covers no more    *)
(* than the best one kept, or a node on the stack still leads to one that  *)
(* covers as much.                                                         *)
(***************************************************************************)
EXTENDS Solvers, FiniteSetTheorems, SequenceTheorems, TLAPS

-----------------------------------------------------------------------------
(***************************************************************************)
(* Branch and bound.                                                       *)
(***************************************************************************)

\* A selection that covers as much as S can be completed from a node.
Completes(p, o, node, S) ==
    \E T \in SUBSET node.rest :
        /\ Cardinality(T) <= p.k - Cardinality(node.chosen)
        /\ ~o.enhanced => Cardinality(T) = p.k - Cardinality(node.chosen)
        /\ Value(p, S) <= Cardinality(node.covered \cup Union(p, T))

Sound(p, node) ==
    /\ node.covered = Union(p, node.chosen)
    /\ Cardinality(node.chosen) <= p.k
    /\ node.chosen \cap node.rest = {}

NodesSound == \A m \in DOMAIN pending : Sound(inst, pending[m])

Kept ==
    status = "searching" =>
        \A S \in Selections(inst) :
            \/ Value(inst, S) <= best.value
            \/ \E m \in DOMAIN pending : Completes(inst, options, pending[m], S)

Proved ==
    status = "optimal" => \A S \in Selections(inst) : Value(inst, S) <= best.value

Inv ==
    /\ SearchTypeOK
    /\ Cardinality(selected) <= inst.k
    /\ BestIsFeasible
    /\ NodesSound
    /\ Kept
    /\ Proved

-----------------------------------------------------------------------------
(* Finite sets.                                                            *)

\* The cardinalities of parts of the universe are numbers, ordered as the parts.
LEMMA PartsOfUniverse ==
  ASSUME NEW Y, Y \subseteq Universe, NEW X, X \subseteq Y
  PROVE  /\ IsFiniteSet(X) /\ IsFiniteSet(Y)
         /\ Cardinality(X) \in Nat /\ Cardinality(Y) \in Nat
         /\ Cardinality(X) <= Cardinality(Y)
         /\ Cardinality(Universe) \in Nat
<1>1. IsFiniteSet(Universe)
  BY CoverageAssumption
<1>2. IsFiniteSet(Y)
  BY <1>1, FS_Subset
<1>3. IsFiniteSet(X) /\ Cardinality(X) <= Cardinality(Y)
  BY <1>2, FS_Subset
<1> QED
  BY <1>1, <1>2, <1>3, FS_CardinalityType

\* The sets of an instance are parts of the universe, indexed from 1.
LEMMA Instance ==
  ASSUME NEW p \in Instances
  PROVE  /\ Len(p.sets) \in Nat /\ Indices(p) = 1 .. Len(p.sets)
         /\ p.k \in 1 .. Len(p.sets) /\ p.k \in Nat
         /\ \A i \in Indices(p) : p.sets[i] \subseteq Universe
<1>1. p.sets \in Seq(SUBSET Universe) /\ p.k \in 1 .. Len(p.sets)
  BY CoverageAssumption
<1>2. Len(p.sets) \in Nat /\ DOMAIN p.sets = 1 .. Len(p.sets)
  BY <1>1
<1>3. \A i \in DOMAIN p.sets : p.sets[i] \in SUBSET Universe
  BY <1>1, <1>2, ElementOfSeq
<1> QED
  BY <1>1, <1>2, <1>3 DEF Indices

\* An instance has finitely many sets.
LEMMA IndicesFinite ==
  ASSUME NEW p \in Instances
  PROVE  IsFiniteSet(Indices(p)) /\ Cardinality(Indices(p)) = Len(p.sets)
<1> DEFINE n == Len(p.sets)
<1>1. n \in Nat /\ Indices(p) = 1 .. n
  BY Instance
<1>2. IsFiniteSet(1 .. n) /\ Cardinality(1 .. n) = IF 1 > n THEN 0 ELSE n - 1 + 1
  <2> HIDE DEF n
  <2>1. 1 \in Int /\ n \in Int
    BY <1>1
  <2> QED
    BY <2>1, FS_Interval
<1>3. Cardinality(1 .. n) = n
  BY <1>1, <1>2
<1> QED
  BY <1>1, <1>2, <1>3

\* Selections are finite, and what they cover is part of the universe.
LEMMA SelectionTypes ==
  ASSUME NEW p \in Instances, NEW S, S \subseteq Indices(p)
  PROVE  /\ IsFiniteSet(S) /\ Cardinality(S) \in Nat
         /\ Union(p, S) \subseteq Universe
         /\ Value(p, S) \in Nat /\ Value(p, S) <= Cardinality(Universe)
<1>1. IsFiniteSet(Indices(p))
  BY IndicesFinite
<1>2. IsFiniteSet(S)
  BY <1>1, FS_Subset
<1>3. Union(p, S) \subseteq Universe
  BY Instance DEF Union
<1> QED
  BY <1>2, <1>3, FS_CardinalityType, PartsOfUniverse DEF Value

\* Some index in a set of indices is the least.
LEMMA LeastIndex ==
  ASSUME NEW p \in Instances, NEW S, S \subseteq Indices(p), S # {}
  PROVE  \E m \in S : \A j \in S : m <= j
<1> DEFINE R == StrictSubsetOrdering(Indices(p))
           T == {1 .. i : i \in S}
<1>1. IsFiniteSet(Indices(p)) /\ S \subseteq Nat
  BY Instance, IndicesFinite
<1>2. IsWellFoundedOn(R, SUBSET Indices(p))
  BY <1>1, FS_StrictSubsetOrderingWellFounded, FS_FiniteSubsetsOfFinite
<1>3. T \subseteq SUBSET Indices(p) /\ T # {}
  BY Instance
<1>4. PICK x \in T : \A y \in T : ~(<<y, x>> \in R)
  <2> HIDE DEF R, T
  <2> QED BY <1>2, <1>3, WFMin
<1>5. PICK m \in S : x = 1 .. m
  BY <1>4
<1>6. ASSUME NEW j \in S, ~(m <= j) PROVE FALSE
  <2>1. m \in Nat /\ j \in Nat /\ j < m
    BY <1>1, <1>6
  <2>2. 1 .. j \subseteq 1 .. m /\ m \in 1 .. m /\ m \notin 1 .. j
    BY <2>1
  <2>3. 1 .. j \in T /\ 1 .. m \in T
    BY <1>5
  <2>4. 1 .. j \in SUBSET Indices(p) /\ 1 .. m \in SUBSET Indices(p)
    <3> HIDE DEF T
    <3> QED BY <1>3, <2>3
  <2>5. <<1 .. j, 1 .. m>> \in R
    BY <2>2, <2>4 DEF StrictSubsetOrdering
  <2> QED
    BY <1>4, <1>5, <2>3, <2>5
<1> QED
  BY <1>6

\* A selection of at most k sets is part of one of exactly k.
LEMMA Extension ==
  ASSUME NEW p \in Instances, NEW S, S \subseteq Indices(p), Cardinality(S) <= p.k
  PROVE  \E T \in Selections(p) : S \subseteq T
<1> DEFINE R == StrictSubsetOrdering(Indices(p))
           Large == {X \in SUBSET Indices(p) : S \subseteq X /\ Cardinality(X) >= p.k}
<1>1. IsFiniteSet(Indices(p)) /\ Cardinality(Indices(p)) = Len(p.sets)
  BY IndicesFinite
<1>2. IsWellFoundedOn(R, SUBSET Indices(p))
  BY <1>1, FS_StrictSubsetOrderingWellFounded, FS_FiniteSubsetsOfFinite
<1>3. Indices(p) \in Large
  BY <1>1, Instance
<1>4. PICK x \in Large : \A y \in Large : ~(<<y, x>> \in R)
  <2>1. Large \subseteq SUBSET Indices(p) /\ Large # {}
    BY <1>3
  <2> HIDE DEF R, Large
  <2> QED BY <1>2, <2>1, WFMin
<1>5. /\ x \subseteq Indices(p) /\ S \subseteq x /\ Cardinality(x) >= p.k
      /\ IsFiniteSet(x) /\ Cardinality(x) \in Nat
      /\ IsFiniteSet(S) /\ Cardinality(S) \in Nat /\ p.k \in Nat
  BY <1>4, SelectionTypes, Instance
<1>6. ASSUME Cardinality(x) # p.k PROVE FALSE
  <2>1. x # S
    BY <1>5, <1>6
  <2>2. PICK e \in x : e \notin S
    BY <1>5, <2>1
  <2>3. Cardinality(x \ {e}) = Cardinality(x) - 1
    BY <1>5, FS_RemoveElement
  <2>4. x \ {e} \in Large
    BY <1>5, <1>6, <2>2, <2>3
  <2>5. <<x \ {e}, x>> \in R
    BY <1>5, <2>2 DEF StrictSubsetOrdering
  <2> QED
    BY <1>4, <2>4, <2>5
<1> QED
  BY <1>5, <1>6 DEF Selections

\* Sets that cover every set of an instance hold a selection as good as any.
LEMMA Replacement ==
  ASSUME NEW p \in Instances, NEW S, S \subseteq Indices(p),
         NEW D, D \subseteq Indices(p),
         \A i \in Indices(p) : \E j \in D : p.sets[i] \subseteq p.sets[j]
  PROVE  \E T \in SUBSET D :
             /\ Cardinality(T) <= Cardinality(S)
             /\ Value(p, S) <= Value(p, T)
<1> DEFINE f == [i \in S |-> CHOOSE j \in D : p.sets[i] \subseteq p.sets[j]]
           T == {f[i] : i \in S}
<1>1. \A i \in S : f[i] \in D /\ p.sets[i] \subseteq p.sets[f[i]]
  OBVIOUS
<1>2. T \subseteq D
  BY <1>1
<1>3. Cardinality(T) <= Cardinality(S)
  <2>1. f \in Surjection(S, T)
    BY DEF Surjection
  <2>2. IsFiniteSet(S)
    BY SelectionTypes
  <2> HIDE DEF f, T
  <2> QED BY <2>1, <2>2, FS_Surjection
<1>4. Union(p, S) \subseteq Union(p, T)
  BY <1>1 DEF Union
<1>5. Value(p, S) <= Value(p, T)
  <2>1. Union(p, T) \subseteq Universe
    BY <1>2, SelectionTypes
  <2> QED
    BY <1>4, <2>1, PartsOfUniverse DEF Value
<1> QED
  BY <1>2, <1>3, <1>5

-----------------------------------------------------------------------------
(* Preprocessing.                                                          *)

\* Of equal sets one is kept.
LEMMA DistinctCovers ==
  ASSUME SearchTypeOK
  PROVE  /\ Distinct \subseteq Indices(inst)
         /\ \A i \in Indices(inst) : \E j \in Distinct : inst.sets[i] = inst.sets[j]
<1>1. Unique \subseteq Indices(inst) /\ Distinct \subseteq Indices(inst)
  BY DEF Unique, Distinct
<1>2. ASSUME NEW i \in Indices(inst)
      PROVE  \E j \in Unique : inst.sets[i] = inst.sets[j]
  <2> DEFINE Same == {j \in Indices(inst) : inst.sets[j] = inst.sets[i]}
  <2>1. PICK m \in Same : \A j \in Same : m <= j
    <3>1. inst \in Instances /\ Same \subseteq Indices(inst) /\ Same # {}
      BY DEF SearchTypeOK
    <3> QED
      BY <3>1, LeastIndex
  <2>2. m \in Unique
    BY <2>1 DEF Unique
  <2> QED
    BY <2>1, <2>2
<1> QED
  BY <1>1, <1>2 DEF Distinct

\* Of the sets that are left, one that no other contains contains each.
LEMMA UndominatedCovers ==
  ASSUME SearchTypeOK, NEW D, D \subseteq Indices(inst), NEW i \in D
  PROVE  \E j \in Undominated(D) : inst.sets[i] \subseteq inst.sets[j]
<1> DEFINE R == StrictSubsetOrdering(Universe)
           Larger == {j \in D : inst.sets[i] \subseteq inst.sets[j]}
           F == {Universe \ inst.sets[j] : j \in Larger}
<1>1. \A j \in D : inst.sets[j] \subseteq Universe
  BY Instance DEF SearchTypeOK
<1>2. IsWellFoundedOn(R, SUBSET Universe)
  BY CoverageAssumption, FS_StrictSubsetOrderingWellFounded, FS_FiniteSubsetsOfFinite
<1>3. F \subseteq SUBSET Universe /\ F # {}
  OBVIOUS
<1>4. PICK x \in F : \A y \in F : ~(<<y, x>> \in R)
  <2> HIDE DEF R, F
  <2> QED BY <1>2, <1>3, WFMin
<1>5. PICK m \in Larger : x = Universe \ inst.sets[m]
  BY <1>4
<1>6. ASSUME NEW j \in D, inst.sets[m] \subseteq inst.sets[j],
             inst.sets[m] # inst.sets[j]
      PROVE  FALSE
  <2>1. j \in Larger
    BY <1>5, <1>6
  <2>2. Universe \ inst.sets[j] \in F
    BY <2>1
  <2>3. /\ Universe \ inst.sets[j] \subseteq Universe \ inst.sets[m]
        /\ Universe \ inst.sets[j] # Universe \ inst.sets[m]
    BY <1>1, <1>5, <1>6
  <2>4. <<Universe \ inst.sets[j], Universe \ inst.sets[m]>> \in R
    BY <2>3 DEF StrictSubsetOrdering
  <2> QED
    BY <1>4, <1>5, <2>2, <2>4
<1>7. m \in Undominated(D)
  BY <1>5, <1>6 DEF Undominated
<1> QED
  BY <1>5, <1>7

\* Every set is part of a candidate, and the plain search keeps all sets.
LEMMA CandidatesCover ==
  ASSUME SearchTypeOK
  PROVE  /\ Candidates \subseteq Indices(inst)
         /\ \A i \in Indices(inst) :
                \E j \in Candidates : inst.sets[i] \subseteq inst.sets[j]
         /\ ~options.enhanced => Candidates = Indices(inst)
<1>1. /\ Distinct \subseteq Indices(inst)
      /\ \A i \in Indices(inst) : \E j \in Distinct : inst.sets[i] = inst.sets[j]
  BY DistinctCovers
<1>2. Candidates \subseteq Indices(inst)
  BY <1>1 DEF Candidates, Undominated
<1>3. ASSUME NEW i \in Indices(inst)
      PROVE  \E j \in Candidates : inst.sets[i] \subseteq inst.sets[j]
  <2>1. PICK d \in Distinct : inst.sets[i] = inst.sets[d]
    BY <1>1
  <2>2. \E j \in Undominated(Distinct) : inst.sets[d] \subseteq inst.sets[j]
    BY <1>1, UndominatedCovers
  <2> QED
    BY <2>1, <2>2 DEF Candidates
<1>4. ASSUME ~options.enhanced PROVE Candidates = Indices(inst)
  <2>1. options = Plain
    BY <1>4 DEF SearchTypeOK, AllOptions
  <2> QED
    BY <2>1 DEF Plain, Candidates, Distinct
<1> QED
  BY <1>2, <1>3, <1>4

-----------------------------------------------------------------------------
(* One node.                                                               *)

\* What sets of a node add is at most the sum of their gains.
LEMMA Counting ==
  ASSUME SearchTypeOK, NEW node \in Node, NEW T, T \subseteq node.rest
  PROVE  /\ GainsOf(node, T) \in Nat
         /\ Cardinality(node.covered \cup Union(inst, T))
                <= Cardinality(node.covered) + GainsOf(node, T)
<1> DEFINE P == {p \in T \X Universe : p[2] \in inst.sets[p[1]] \ node.covered}
           New == Union(inst, T) \ node.covered
           f == [p \in P |-> p[2]]
<1>1. inst \in Instances /\ T \subseteq Indices(inst) /\ node.covered \subseteq Universe
  BY DEF SearchTypeOK, Node
<1>2. Union(inst, T) \subseteq Universe /\ IsFiniteSet(T)
  BY <1>1, SelectionTypes
<1>3. IsFiniteSet(P)
  <2>1. IsFiniteSet(T \X Universe)
    BY <1>2, CoverageAssumption, FS_Product
  <2>2. P \subseteq T \X Universe
    OBVIOUS
  <2> HIDE DEF P
  <2> QED BY <2>1, <2>2, FS_Subset
<1>4. f \in Surjection(P, New)
  <2>1. \A p \in P : f[p] \in New
    BY DEF Union
  <2>2. ASSUME NEW e \in New PROVE \E p \in P : f[p] = e
    <3>1. PICK i \in T : e \in inst.sets[i]
      BY DEF Union
    <3>2. e \in Universe /\ e \notin node.covered
      BY <1>2
    <3>3. <<i, e>> \in P
      BY <3>1, <3>2
    <3> QED
      BY <3>3
  <2>3. f \in [P -> New]
    BY <2>1
  <2> HIDE DEF f, P, New
  <2> QED BY <2>2, <2>3 DEF Surjection
<1>5. Cardinality(New) <= Cardinality(P)
  <2> HIDE DEF f, P, New
  <2> QED BY <1>3, <1>4, FS_Surjection
<1>6. GainsOf(node, T) = Cardinality(P)
  BY DEF GainsOf
<1>7. GainsOf(node, T) \in Nat
  <2> HIDE DEF P
  <2> QED BY <1>3, <1>6, FS_CardinalityType
<1>8. /\ IsFiniteSet(New) /\ IsFiniteSet(node.covered)
      /\ Cardinality(New) \in Nat /\ Cardinality(node.covered) \in Nat
  <2>1. New \subseteq Universe
    BY <1>2
  <2> HIDE DEF New
  <2> QED BY <1>1, <2>1, PartsOfUniverse
<1>9. Cardinality(node.covered \cup New) = Cardinality(node.covered) + Cardinality(New)
  <2>1. node.covered \cap New = {}
    OBVIOUS
  <2>2. Cardinality(node.covered \cap New) = 0
    BY <2>1, FS_EmptySet
  <2> HIDE DEF New
  <2>3. Cardinality(node.covered \cup New)
            = Cardinality(node.covered) + Cardinality(New)
                  - Cardinality(node.covered \cap New)
    BY <1>8, FS_Union
  <2> QED BY <1>8, <2>2, <2>3
<1>10. node.covered \cup New = node.covered \cup Union(inst, T)
  OBVIOUS
<1>11. Cardinality(node.covered \cup New) <= Cardinality(node.covered) + GainsOf(node, T)
  <2> HIDE DEF P, New, f
  <2> QED BY <1>5, <1>6, <1>7, <1>8, <1>9
<1> QED
  BY <1>7, <1>10, <1>11

\* Nothing better than the value is lost with a node that is closed.
LEMMA ClosedLosesNothing ==
  ASSUME SearchTypeOK, NEW node \in Node, Sound(inst, node),
         NEW value \in Nat, Cardinality(node.covered) <= value,
         Closed(node, value),
         NEW S \in Selections(inst), Completes(inst, options, node, S)
  PROVE  Value(inst, S) <= value
<1>1. PICK T \in SUBSET node.rest :
          /\ Cardinality(T) <= Slots(node)
          /\ ~options.enhanced => Cardinality(T) = Slots(node)
          /\ Value(inst, S) <= Cardinality(node.covered \cup Union(inst, T))
  BY DEF Completes, Slots
<1>2. /\ inst \in Instances /\ node.rest \subseteq Indices(inst)
      /\ node.covered \subseteq Universe /\ S \subseteq Indices(inst)
      /\ node.chosen \subseteq Indices(inst) /\ T \subseteq Indices(inst)
  BY DEF SearchTypeOK, Node, Selections
<1>3. /\ Value(inst, S) \in Nat /\ Value(inst, S) <= Cardinality(Universe)
      /\ IsFiniteSet(T) /\ Cardinality(T) \in Nat
      /\ IsFiniteSet(node.rest) /\ Cardinality(node.rest) \in Nat
      /\ Union(inst, T) \subseteq Universe /\ Union(inst, node.rest) \subseteq Universe
      /\ Cardinality(node.chosen) \in Nat
  BY <1>2, SelectionTypes
<1>4. Slots(node) \in Nat
  BY <1>2, <1>3, Instance DEF Slots, Sound
<1>5. Cardinality(node.covered \cup Union(inst, T)) \in Nat
  BY <1>2, <1>3, PartsOfUniverse
<1>6. CASE T = {}
  <2>1. node.covered \cup Union(inst, T) = node.covered
    BY <1>6 DEF Union
  <2> QED
    BY <1>1, <1>3, <1>5, <2>1
<1>7. CASE Slots(node) = 0 \/ node.rest = {}
  <2>1. T = {}
    BY <1>1, <1>3, <1>7, FS_EmptySet
  <2> QED
    BY <1>6, <2>1
<1>8. CASE value = Cardinality(Universe)
  BY <1>3, <1>8
<1>9. CASE ~options.enhanced /\ Cardinality(node.rest) < Slots(node)
  <2>1. Cardinality(T) <= Cardinality(node.rest)
    BY <1>3, FS_Subset
  <2> QED
    BY <1>1, <1>3, <1>4, <1>9, <2>1
<1>10. CASE UnionBound(node, value)
  <2>1. /\ node.covered \cup Union(inst, T) \subseteq node.covered \cup Union(inst, node.rest)
        /\ node.covered \cup Union(inst, node.rest) \subseteq Universe
    BY <1>2, <1>3 DEF Union
  <2>2. /\ Cardinality(node.covered \cup Union(inst, T))
              <= Cardinality(node.covered \cup Union(inst, node.rest))
        /\ Cardinality(node.covered \cup Union(inst, node.rest)) \in Nat
    BY <2>1, PartsOfUniverse
  <2> QED
    BY <1>1, <1>3, <1>5, <1>10, <2>2 DEF UnionBound
<1>11. CASE CardinalityBound(node, value)
  <2>1. Cardinality(node.covered) + GainsOf(node, T) <= value
    BY <1>1, <1>11 DEF CardinalityBound
  <2>2. /\ GainsOf(node, T) \in Nat
        /\ Cardinality(node.covered \cup Union(inst, T))
              <= Cardinality(node.covered) + GainsOf(node, T)
    BY Counting
  <2>3. Cardinality(node.covered) \in Nat
    BY <1>2, PartsOfUniverse
  <2> QED
    BY <1>1, <1>3, <1>5, <2>1, <2>2, <2>3
<1> QED
  BY <1>7, <1>8, <1>9, <1>10, <1>11 DEF Closed, Bounded

\* What branching pushes is made of nodes, sound as the one it was made of.
LEMMA BranchesSound ==
  ASSUME SearchTypeOK, NEW node \in Node, Sound(inst, node), Slots(node) # 0,
         NEW i \in node.rest
  PROVE  /\ Without(node, i) \in Node /\ With(node, i) \in Node
         /\ Sound(inst, Without(node, i)) /\ Sound(inst, With(node, i))
         /\ Cardinality(With(node, i).chosen) = Cardinality(node.chosen) + 1
<1>1. /\ inst \in Instances /\ node.rest \subseteq Indices(inst)
      /\ node.chosen \subseteq Indices(inst) /\ node.covered \subseteq Universe
      /\ i \in Indices(inst)
  BY DEF SearchTypeOK, Node
<1>2. /\ Without(node, i).rest = node.rest \ {i}
      /\ Without(node, i).chosen = node.chosen
      /\ Without(node, i).covered = node.covered
      /\ Without(node, i) \in Node
  BY DEF Without, Node
<1>3. inst.sets[i] \subseteq Universe /\ inst.k \in Nat
  BY <1>1, Instance
<1>4. With(node, i) \in Node
  BY <1>1, <1>3 DEF With, Node
<1>5. Cardinality(node.chosen \cup {i}) = Cardinality(node.chosen) + 1
  <2>1. IsFiniteSet(node.chosen) /\ i \notin node.chosen
    BY <1>1, SelectionTypes DEF Sound
  <2> QED
    BY <2>1, FS_AddElement
<1>6. Cardinality(node.chosen) \in Nat
  BY <1>1, SelectionTypes
<1>7. Union(inst, node.chosen \cup {i}) = node.covered \cup inst.sets[i]
  BY DEF Union, Sound
<1>8. Sound(inst, Without(node, i))
  BY <1>2 DEF Sound
<1>9. Sound(inst, With(node, i))
  <2>1. Cardinality(node.chosen \cup {i}) <= inst.k
    BY <1>3, <1>5, <1>6 DEF Sound, Slots
  <2>2. (node.chosen \cup {i}) \cap (node.rest \ {i}) = {}
    BY DEF Sound
  <2> QED
    BY <1>7, <2>1, <2>2 DEF Sound, With
<1> QED
  BY <1>2, <1>4, <1>5, <1>8, <1>9 DEF With

\* A selection that a node can be completed to, one of its branches can.
LEMMA BranchesComplete ==
  ASSUME SearchTypeOK, NEW node \in Node, Sound(inst, node), Slots(node) # 0,
         NEW i \in node.rest, NEW S, Completes(inst, options, node, S)
  PROVE  \/ Completes(inst, options, Without(node, i), S)
         \/ Completes(inst, options, With(node, i), S)
<1>1. PICK T \in SUBSET node.rest :
          /\ Cardinality(T) <= inst.k - Cardinality(node.chosen)
          /\ ~options.enhanced => Cardinality(T) = inst.k - Cardinality(node.chosen)
          /\ Value(inst, S) <= Cardinality(node.covered \cup Union(inst, T))
  BY DEF Completes
<1>2. CASE i \notin T
  <2>1. /\ Without(node, i).rest = node.rest \ {i}
        /\ Without(node, i).chosen = node.chosen
        /\ Without(node, i).covered = node.covered
    BY DEF Without, Node
  <2>2. T \in SUBSET (node.rest \ {i})
    BY <1>2
  <2> QED
    BY <1>1, <2>1, <2>2 DEF Completes
<1>3. CASE i \in T
  <2>1. /\ inst \in Instances /\ T \subseteq Indices(inst)
        /\ node.chosen \subseteq Indices(inst)
    BY DEF SearchTypeOK, Node
  <2>2. /\ IsFiniteSet(T) /\ Cardinality(T) \in Nat /\ inst.k \in Nat
        /\ Cardinality(node.chosen) \in Nat
    BY <2>1, SelectionTypes, Instance
  <2>3. Cardinality(T \ {i}) = Cardinality(T) - 1
    BY <1>3, <2>2, FS_RemoveElement
  <2>4. /\ With(node, i).rest = node.rest \ {i}
        /\ With(node, i).covered = node.covered \cup inst.sets[i]
        /\ Cardinality(With(node, i).chosen) = Cardinality(node.chosen) + 1
    BY BranchesSound DEF With
  <2>5. With(node, i).covered \cup Union(inst, T \ {i}) = node.covered \cup Union(inst, T)
    BY <1>3, <2>4 DEF Union
  <2>6. T \ {i} \in SUBSET With(node, i).rest
    BY <2>4
  <2>7. /\ Cardinality(T \ {i}) <= inst.k - Cardinality(With(node, i).chosen)
        /\ ~options.enhanced =>
              Cardinality(T \ {i}) = inst.k - Cardinality(With(node, i).chosen)
    BY <1>1, <2>2, <2>3, <2>4
  <2>8. Value(inst, S) <= Cardinality(With(node, i).covered \cup Union(inst, T \ {i}))
    BY <1>1, <2>5
  <2> QED
    BY <2>6, <2>7, <2>8 DEF Completes
<1> QED
  BY <1>2, <1>3

-----------------------------------------------------------------------------
(* The steps.                                                              *)

\* The stack without its top, and with two others in its place.
LEMMA Stack ==
  ASSUME NEW A, NEW s \in Seq(A), s # <<>>, NEW a \in A, NEW b \in A
  PROVE  /\ Len(s) \in Nat \ {0} /\ s[Len(s)] \in A /\ DOMAIN s = 1 .. Len(s)
         /\ SubSeq(s, 1, Len(s) - 1) \in Seq(A)
         /\ DOMAIN SubSeq(s, 1, Len(s) - 1) = 1 .. Len(s) - 1
         /\ \A m \in 1 .. Len(s) - 1 : SubSeq(s, 1, Len(s) - 1)[m] = s[m]
         /\ SubSeq(s, 1, Len(s) - 1) \o <<a, b>> \in Seq(A)
         /\ DOMAIN (SubSeq(s, 1, Len(s) - 1) \o <<a, b>>) = 1 .. Len(s) + 1
         /\ \A m \in 1 .. Len(s) + 1 :
                (SubSeq(s, 1, Len(s) - 1) \o <<a, b>>)[m] =
                    IF m < Len(s) THEN s[m] ELSE IF m = Len(s) THEN a ELSE b
<1> DEFINE n == Len(s)
           t == SubSeq(s, 1, n - 1)
           u == t \o <<a, b>>
<1>1. n \in Nat \ {0} /\ DOMAIN s = 1 .. n
  BY EmptySeq
<1>2. \A m \in 1 .. n : s[m] \in A
  BY <1>1, ElementOfSeq
<1>3. /\ t \in Seq(A) /\ Len(t) = n - 1
      /\ \A m \in 1 .. n - 1 : t[m] = s[m]
  <2>1. 1 \in Int /\ n - 1 \in Int /\ \A m \in 1 .. n - 1 : s[m] \in A
    BY <1>1, <1>2
  <2>2. /\ t \in Seq(A)
        /\ Len(t) = IF 1 <= n - 1 THEN n - 1 - 1 + 1 ELSE 0
        /\ \A m \in 1 .. n - 1 - 1 + 1 : t[m] = s[1 + m - 1]
    <3> HIDE DEF n
    <3> QED BY <2>1, SubSeqProperties
  <2>3. Len(t) = n - 1
    <3> HIDE DEF n, t
    <3> QED BY <1>1, <2>2
  <2>4. ASSUME NEW m \in 1 .. n - 1 PROVE t[m] = s[m]
    <3>1. m \in 1 .. n - 1 - 1 + 1 /\ 1 + m - 1 = m
      <4> HIDE DEF n
      <4> QED BY <1>1
    <3> HIDE DEF t
    <3> QED BY <2>2, <3>1
  <2> QED
    BY <2>2, <2>3, <2>4
<1>4. <<a, b>> \in Seq(A) /\ Len(<<a, b>>) = 2 /\ <<a, b>>[1] = a /\ <<a, b>>[2] = b
  OBVIOUS
<1>5. /\ u \in Seq(A) /\ Len(u) = n - 1 + 2
      /\ \A m \in 1 .. n - 1 + 2 :
             u[m] = IF m <= n - 1 THEN t[m] ELSE <<a, b>>[m - (n - 1)]
  <2> HIDE DEF n, t
  <2> QED BY <1>3, <1>4, ConcatProperties
<1>6. \A m \in 1 .. n + 1 : u[m] = IF m < n THEN s[m] ELSE IF m = n THEN a ELSE b
  <2> HIDE DEF n, t, u
  <2> SUFFICES ASSUME NEW m \in 1 .. n + 1
               PROVE  u[m] = IF m < n THEN s[m] ELSE IF m = n THEN a ELSE b
    OBVIOUS
  <2>1. u[m] = IF m <= n - 1 THEN t[m] ELSE <<a, b>>[m - (n - 1)]
    BY <1>1, <1>5
  <2>2. CASE m < n
    BY <1>1, <1>3, <2>1, <2>2
  <2>3. CASE m = n
    <3>1. ~(m <= n - 1) /\ m - (n - 1) = 1
      BY <1>1, <2>3
    <3> QED
      BY <1>4, <2>1, <2>3, <3>1
  <2>4. CASE m = n + 1
    <3>1. ~(m <= n - 1) /\ m - (n - 1) = 2 /\ ~(m < n) /\ m # n
      BY <1>1, <2>4
    <3> QED
      BY <1>4, <2>1, <3>1
  <2> QED
    BY <1>1, <2>2, <2>3, <2>4
<1>7. DOMAIN t = 1 .. n - 1 /\ DOMAIN u = 1 .. n + 1
  <2> HIDE DEF t, u
  <2> QED BY <1>1, <1>3, <1>5
<1>8. s[n] \in A
  BY <1>1, <1>2
<1> HIDE DEF t, u
<1> QED
  BY <1>1, <1>3, <1>5, <1>6, <1>7, <1>8 DEF t, u

\* Looking at the top keeps the best selection feasible and makes it no worse.
LEMMA Improved ==
  ASSUME Inv, Searching
  PROVE  /\ Top \in Node /\ Sound(inst, Top)
         /\ Improve(Top) \in Answer
         /\ best.value <= Improve(Top).value
         /\ Cardinality(Top.covered) <= Improve(Top).value
         /\ Cardinality(Improve(Top).selected) <= inst.k
         /\ Value(inst, Improve(Top).selected) = Improve(Top).value
<1>1. /\ inst \in Instances /\ pending \in Seq(Node) /\ pending # <<>>
      /\ best \in Answer /\ status = "searching"
  BY DEF Inv, SearchTypeOK, Searching
<1>2. Top \in Node /\ Len(pending) \in DOMAIN pending
  BY <1>1, EmptySeq DEF Top
<1>3. Sound(inst, Top)
  BY <1>2 DEF Inv, NodesSound, Top
<1>4. Top.chosen \subseteq Indices(inst) /\ Cardinality(Top.covered) \in Nat
  BY <1>1, <1>2, PartsOfUniverse DEF Node
<1>5. /\ Cardinality(best.selected) <= inst.k
      /\ Value(inst, best.selected) = best.value /\ best.value \in Nat
  BY <1>1 DEF Inv, BestIsFeasible, Answer
<1>6. CASE Cardinality(Top.covered) > best.value
  <2>1. Improve(Top) = [selected |-> Top.chosen, value |-> Cardinality(Top.covered)]
    BY <1>6 DEF Improve
  <2>2. Value(inst, Top.chosen) = Cardinality(Top.covered)
    BY <1>3 DEF Sound, Value
  <2>3. Cardinality(Top.chosen) <= inst.k
    BY <1>3 DEF Sound
  <2>4. Improve(Top) \in Answer
    BY <1>4, <2>1 DEF Answer
  <2> QED
    BY <1>2, <1>3, <1>4, <1>5, <1>6, <2>1, <2>2, <2>3, <2>4
<1>7. CASE ~(Cardinality(Top.covered) > best.value)
  <2>1. Improve(Top) = best
    BY <1>7 DEF Improve
  <2> QED
    BY <1>1, <1>2, <1>3, <1>4, <1>5, <1>7, <2>1
<1> QED
  BY <1>6, <1>7

\* A search starts with nothing.
LEMMA InitInv == SearchInit => Inv
<1> SUFFICES ASSUME SearchInit PROVE Inv
  OBVIOUS
<1>1. /\ inst \in Instances /\ selected = {} /\ options \in AllOptions
      /\ pending = <<>> /\ best = [selected |-> {}, value |-> 0] /\ status = "greedy"
  BY DEF SearchInit, GreedyInit
<1>2. SearchTypeOK
  BY <1>1 DEF SearchTypeOK, Answer
<1>3. Cardinality(selected) <= inst.k
  <2>1. Cardinality({}) = 0 /\ inst.k \in Nat
    BY <1>1, FS_EmptySet, Instance
  <2> QED
    BY <1>1, <2>1
<1>4. NodesSound
  BY <1>1 DEF NodesSound
<1> QED
  BY <1>1, <1>2, <1>3, <1>4 DEF Inv, BestIsFeasible, Kept, Proved

\* The greedy selection grows to k sets.
LEMMA PickInv ==
  ASSUME Inv, NEW i \in Indices(inst), Pick(i)
  PROVE  Inv'
<1>1. /\ status = "greedy" /\ status' = "greedy" /\ inst' = inst /\ options' = options
      /\ pending' = pending /\ best' = best
      /\ selected' = selected \cup {i} /\ i \notin selected
      /\ Cardinality(selected) < inst.k
  BY DEF Pick, GreedyPick, Leads, Available, Selecting
<1>2. Node' = Node /\ Answer' = Answer /\ Indices(inst)' = Indices(inst)
  BY <1>1 DEF Node, Answer, Indices
<1>3. /\ inst \in Instances /\ options \in AllOptions /\ selected \subseteq Indices(inst)
      /\ pending \in Seq(Node) /\ best \in Answer
  BY DEF Inv, SearchTypeOK
<1>4. SearchTypeOK'
  <2>1. selected' \subseteq Indices(inst)
    BY <1>1, <1>3
  <2> QED
    BY <1>1, <1>2, <1>3, <2>1 DEF SearchTypeOK
<1>5. Cardinality(selected') <= inst'.k
  <2>1. /\ IsFiniteSet(selected) /\ Cardinality(selected) \in Nat /\ inst.k \in Nat
    BY <1>3, SelectionTypes, Instance
  <2>2. Cardinality(selected \cup {i}) = Cardinality(selected) + 1
    BY <1>1, <2>1, FS_AddElement
  <2> QED
    BY <1>1, <2>1, <2>2
<1>6. NodesSound'
  BY <1>1 DEF Inv, NodesSound
<1> QED
  BY <1>1, <1>4, <1>5, <1>6 DEF Inv, BestIsFeasible, Kept, Proved

\* The first node leads to every selection, by way of the candidates.
LEMMA BeginInv ==
  ASSUME Inv, Begin
  PROVE  Inv'
<1> DEFINE root == [rest |-> Candidates, chosen |-> {}, covered |-> {}]
<1>1. /\ status' = "searching" /\ inst' = inst /\ options' = options /\ selected' = selected
      /\ best' = [selected |-> selected, value |-> Value(inst, selected)]
      /\ pending' = <<root>>
  BY DEF Begin, Covered, Value
<1>2. /\ inst \in Instances /\ options \in AllOptions /\ selected \subseteq Indices(inst)
      /\ Cardinality(selected) <= inst.k /\ SearchTypeOK /\ inst.k \in Nat
  BY Instance DEF Inv, SearchTypeOK
<1>3. Node' = Node /\ Answer' = Answer /\ Indices(inst)' = Indices(inst)
  BY <1>1 DEF Node, Answer, Indices
<1>4. root \in Node /\ Candidates \subseteq Indices(inst)
  BY <1>2, CandidatesCover DEF Node
<1>5. SearchTypeOK'
  <2>1. best' \in Answer
    BY <1>1, <1>2, SelectionTypes DEF Answer
  <2>2. pending' \in Seq(Node)
    BY <1>1, <1>4
  <2> QED
    BY <1>1, <1>2, <1>3, <2>1, <2>2 DEF SearchTypeOK
<1>6. BestIsFeasible'
  BY <1>1, <1>2 DEF BestIsFeasible
<1>7. DOMAIN pending' = {1} /\ pending'[1] = root
  BY <1>1
<1>8. Cardinality({}) = 0
  BY FS_EmptySet
<1>9. NodesSound'
  <2>1. Union(inst, {}) = {}
    BY DEF Union
  <2>2. Sound(inst, root)
    BY <1>2, <1>8, <2>1 DEF Sound
  <2> QED
    BY <1>1, <1>7, <2>2 DEF NodesSound
<1>10. ASSUME NEW S \in Selections(inst)
       PROVE  Completes(inst, options, root, S)
  <2>1. S \subseteq Indices(inst) /\ Cardinality(S) = inst.k
    BY DEF Selections
  <2>2. \A T : {} \cup Union(inst, T) = Union(inst, T)
    OBVIOUS
  <2>3. CASE options.enhanced
    <3>1. PICK T \in SUBSET Candidates :
              Cardinality(T) <= Cardinality(S) /\ Value(inst, S) <= Value(inst, T)
      BY <1>2, <1>4, <2>1, CandidatesCover, Replacement
    <3>2. Cardinality(T) <= inst.k - Cardinality({})
      BY <1>2, <1>8, <2>1, <3>1
    <3> QED
      BY <2>2, <2>3, <3>1, <3>2 DEF Completes, Value
  <2>4. CASE ~options.enhanced
    <3>1. S \in SUBSET Candidates
      BY <1>2, <2>1, <2>4, CandidatesCover
    <3>2. Cardinality(S) = inst.k - Cardinality({}) /\ Cardinality(S) <= inst.k - Cardinality({})
      BY <1>2, <1>8, <2>1
    <3>3. Value(inst, S) <= Cardinality({} \cup Union(inst, S))
      BY <1>2, <2>1, <2>2, SelectionTypes DEF Value
    <3> QED
      BY <3>1, <3>2, <3>3 DEF Completes
  <2> QED
    BY <2>3, <2>4
<1>11. Kept'
  <2> HIDE DEF root
  <2> QED BY <1>1, <1>7, <1>10 DEF Kept
<1> QED
  BY <1>1, <1>2, <1>5, <1>6, <1>9, <1>11 DEF Inv, Proved

\* A closed node loses nothing.
LEMMA VisitClosedInv ==
  ASSUME Inv, VisitClosed
  PROVE  Inv'
<1>1. /\ Searching /\ status = "searching" /\ status' = "searching"
      /\ inst' = inst /\ options' = options /\ selected' = selected
      /\ best' = Improve(Top) /\ pending' = Below /\ Closed(Top, Improve(Top).value)
  BY DEF VisitClosed, Searching
<1>2. /\ inst \in Instances /\ options \in AllOptions /\ selected \subseteq Indices(inst)
      /\ pending \in Seq(Node) /\ pending # <<>> /\ SearchTypeOK
      /\ best \in Answer /\ best.value \in Nat
  BY <1>1 DEF Inv, SearchTypeOK, Searching, Answer
<1>3. Node' = Node /\ Answer' = Answer /\ Indices(inst)' = Indices(inst)
  BY <1>1 DEF Node, Answer, Indices
<1>4. /\ Top \in Node /\ Sound(inst, Top) /\ best' \in Answer
      /\ best.value <= best'.value /\ Cardinality(Top.covered) <= best'.value
      /\ Cardinality(best'.selected) <= inst.k
      /\ Value(inst, best'.selected) = best'.value /\ best'.value \in Nat
  BY <1>1, Improved DEF Answer
<1>5. /\ Len(pending) \in Nat \ {0} /\ DOMAIN pending = 1 .. Len(pending)
      /\ pending' \in Seq(Node) /\ DOMAIN pending' = 1 .. Len(pending) - 1
      /\ \A m \in 1 .. Len(pending) - 1 : pending'[m] = pending[m]
  BY <1>1, <1>2, <1>4, Stack DEF Below
<1>6. SearchTypeOK'
  BY <1>1, <1>2, <1>3, <1>4, <1>5 DEF SearchTypeOK
<1>7. BestIsFeasible'
  BY <1>1, <1>4 DEF BestIsFeasible
<1>8. NodesSound'
  <2>1. \A m \in DOMAIN pending' : m \in DOMAIN pending /\ pending'[m] = pending[m]
    BY <1>5
  <2> QED
    BY <1>1, <2>1 DEF Inv, NodesSound
<1>9. ASSUME NEW S \in Selections(inst), ~(Value(inst, S) <= best'.value)
      PROVE  \E m \in DOMAIN pending' : Completes(inst, options, pending'[m], S)
  <2>1. Value(inst, S) \in Nat
    BY <1>2, SelectionTypes DEF Selections
  <2>2. ~(Value(inst, S) <= best.value)
    BY <1>2, <1>4, <1>9, <2>1
  <2>3. PICK m \in DOMAIN pending : Completes(inst, options, pending[m], S)
    BY <1>1, <2>2 DEF Inv, Kept
  <2>4. ASSUME m = Len(pending) PROVE FALSE
    <3>1. Completes(inst, options, Top, S)
      BY <2>3, <2>4 DEF Top
    <3>2. Value(inst, S) <= best'.value
      BY <1>1, <1>2, <1>4, <3>1, ClosedLosesNothing
    <3> QED
      BY <1>9, <3>2
  <2>5. m \in DOMAIN pending' /\ pending'[m] = pending[m]
    BY <1>5, <2>4
  <2> QED
    BY <2>3, <2>5
<1>10. Kept'
  BY <1>1, <1>9 DEF Kept
<1> QED
  BY <1>1, <1>6, <1>7, <1>8, <1>10 DEF Inv, Proved

\* What a node leads to, one of its branches does.
LEMMA BranchInv ==
  ASSUME Inv, NEW i \in Indices(inst), Branch(i)
  PROVE  Inv'
<1> DEFINE n == Len(pending)
<1>1. /\ Searching /\ status = "searching" /\ status' = "searching"
      /\ inst' = inst /\ options' = options /\ selected' = selected
      /\ best' = Improve(Top) /\ pending' = Below \o <<Without(Top, i), With(Top, i)>>
      /\ i \in Top.rest /\ Slots(Top) # 0
  BY DEF Branch, Searching, BranchesOn, Closed
<1>2. /\ inst \in Instances /\ options \in AllOptions /\ selected \subseteq Indices(inst)
      /\ pending \in Seq(Node) /\ pending # <<>> /\ SearchTypeOK
      /\ best \in Answer /\ best.value \in Nat
  BY <1>1 DEF Inv, SearchTypeOK, Searching, Answer
<1>3. Node' = Node /\ Answer' = Answer /\ Indices(inst)' = Indices(inst)
  BY <1>1 DEF Node, Answer, Indices
<1>4. /\ Top \in Node /\ Sound(inst, Top) /\ best' \in Answer
      /\ best.value <= best'.value
      /\ Cardinality(best'.selected) <= inst.k
      /\ Value(inst, best'.selected) = best'.value /\ best'.value \in Nat
  BY <1>1, Improved DEF Answer
<1>5. /\ Without(Top, i) \in Node /\ With(Top, i) \in Node
      /\ Sound(inst, Without(Top, i)) /\ Sound(inst, With(Top, i))
  BY <1>1, <1>2, <1>4, BranchesSound
<1>6. /\ n \in Nat \ {0} /\ DOMAIN pending = 1 .. n
      /\ pending' \in Seq(Node) /\ DOMAIN pending' = 1 .. n + 1
      /\ \A m \in 1 .. n + 1 :
            pending'[m] = IF m < n THEN pending[m]
                          ELSE IF m = n THEN Without(Top, i) ELSE With(Top, i)
  BY <1>1, <1>2, <1>5, Stack DEF Below
<1> HIDE DEF n
<1>7. SearchTypeOK'
  BY <1>1, <1>2, <1>3, <1>4, <1>6 DEF SearchTypeOK
<1>8. BestIsFeasible'
  BY <1>1, <1>4 DEF BestIsFeasible
<1>9. NodesSound'
  <2>1. ASSUME NEW m \in DOMAIN pending' PROVE Sound(inst, pending'[m])
    <3>1. CASE m < n
      <4>1. m \in DOMAIN pending /\ pending'[m] = pending[m]
        BY <1>6, <3>1
      <4> QED
        BY <4>1 DEF Inv, NodesSound
    <3>2. CASE ~(m < n)
      BY <1>5, <1>6, <3>2
    <3> QED
      BY <3>1, <3>2
  <2> QED
    BY <1>1, <2>1 DEF NodesSound
<1>10. ASSUME NEW S \in Selections(inst), ~(Value(inst, S) <= best'.value)
       PROVE  \E m \in DOMAIN pending' : Completes(inst, options, pending'[m], S)
  <2>1. Value(inst, S) \in Nat
    BY <1>2, SelectionTypes DEF Selections
  <2>2. ~(Value(inst, S) <= best.value)
    BY <1>2, <1>4, <1>10, <2>1
  <2>3. PICK m \in DOMAIN pending : Completes(inst, options, pending[m], S)
    BY <1>1, <2>2 DEF Inv, Kept
  <2>4. CASE m < n
    <3>1. m \in DOMAIN pending' /\ pending'[m] = pending[m]
      BY <1>6, <2>4
    <3> QED
      BY <2>3, <3>1
  <2>5. CASE m = n
    <3>1. Completes(inst, options, Top, S)
      BY <2>3, <2>5 DEF Top, n
    <3>2. \/ Completes(inst, options, Without(Top, i), S)
          \/ Completes(inst, options, With(Top, i), S)
      BY <1>1, <1>2, <1>4, <3>1, BranchesComplete
    <3>3. /\ n \in DOMAIN pending' /\ pending'[n] = Without(Top, i)
          /\ n + 1 \in DOMAIN pending' /\ pending'[n + 1] = With(Top, i)
      BY <1>6
    <3> QED
      BY <3>2, <3>3
  <2> QED
    BY <1>6, <2>4, <2>5
<1>11. Kept'
  BY <1>1, <1>10 DEF Kept
<1> QED
  BY <1>1, <1>7, <1>8, <1>9, <1>11 DEF Inv, Proved

\* Nothing covers more than the universe.
LEMMA TimeoutInv ==
  ASSUME Inv, Timeout
  PROVE  Inv'
<1>1. /\ Searching /\ status = "searching" /\ inst' = inst /\ options' = options
      /\ selected' = selected /\ best' = best /\ pending' = Below
      /\ status' \in {"optimal", "timeout"}
      /\ status' = "optimal" => best.value = Cardinality(Universe)
  BY DEF Timeout, Searching
<1>2. /\ inst \in Instances /\ options \in AllOptions /\ selected \subseteq Indices(inst)
      /\ pending \in Seq(Node) /\ pending # <<>> /\ best \in Answer /\ Top \in Node
  BY <1>1, Improved DEF Inv, SearchTypeOK, Searching
<1>3. Node' = Node /\ Answer' = Answer /\ Indices(inst)' = Indices(inst)
  BY <1>1 DEF Node, Answer, Indices
<1>4. /\ Len(pending) \in Nat \ {0} /\ DOMAIN pending = 1 .. Len(pending)
      /\ pending' \in Seq(Node) /\ DOMAIN pending' = 1 .. Len(pending) - 1
      /\ \A m \in 1 .. Len(pending) - 1 : pending'[m] = pending[m]
  BY <1>1, <1>2, Stack DEF Below
<1>5. SearchTypeOK'
  BY <1>1, <1>2, <1>3, <1>4 DEF SearchTypeOK
<1>6. BestIsFeasible'
  BY <1>1 DEF Inv, BestIsFeasible
<1>7. NodesSound'
  <2>1. \A m \in DOMAIN pending' : m \in DOMAIN pending /\ pending'[m] = pending[m]
    BY <1>4
  <2> QED
    BY <1>1, <2>1 DEF Inv, NodesSound
<1>8. Proved'
  <2>1. \A S \in Selections(inst) : Value(inst, S) <= Cardinality(Universe)
    BY <1>2, SelectionTypes DEF Selections
  <2> QED
    BY <1>1, <2>1 DEF Proved
<1> QED
  BY <1>1, <1>5, <1>6, <1>7, <1>8 DEF Inv, Kept

\* With no node left, every selection is covered by the best.
LEMMA FinishInv ==
  ASSUME Inv, Finish
  PROVE  Inv'
<1>1. /\ status = "searching" /\ pending = <<>> /\ status' = "optimal"
      /\ inst' = inst /\ options' = options /\ selected' = selected
      /\ pending' = pending /\ best' = best
  BY DEF Finish
<1>2. Node' = Node /\ Answer' = Answer /\ Indices(inst)' = Indices(inst)
  BY <1>1 DEF Node, Answer, Indices
<1>3. SearchTypeOK'
  BY <1>1, <1>2 DEF Inv, SearchTypeOK
<1>4. BestIsFeasible' /\ NodesSound'
  BY <1>1 DEF Inv, BestIsFeasible, NodesSound
<1>5. Proved'
  <2>1. DOMAIN pending = {}
    BY <1>1
  <2> QED
    BY <1>1, <2>1 DEF Inv, Kept, Proved
<1> QED
  BY <1>1, <1>3, <1>4, <1>5 DEF Inv, Kept

\* The invariant is inductive.
LEMMA NextInv ==
  ASSUME Inv, [SearchNext]_searchVars
  PROVE  Inv'
<1>1. CASE \E i \in Indices(inst) : Pick(i)
  BY <1>1, PickInv
<1>2. CASE \E i \in Indices(inst) : Branch(i)
  BY <1>2, BranchInv
<1>3. CASE Begin
  BY <1>3, BeginInv
<1>4. CASE VisitClosed
  BY <1>4, VisitClosedInv
<1>5. CASE Finish
  BY <1>5, FinishInv
<1>6. CASE Timeout
  BY <1>6, TimeoutInv
<1>7. CASE UNCHANGED searchVars
  <2>1. Node' = Node /\ Answer' = Answer /\ Indices(inst)' = Indices(inst)
    BY <1>7 DEF searchVars, Node, Answer, Indices
  <2>2. SearchTypeOK'
    BY <1>7, <2>1 DEF Inv, SearchTypeOK, searchVars
  <2> QED
    BY <1>7, <2>2 DEF Inv, searchVars, BestIsFeasible, NodesSound, Kept, Proved
<1> QED
  BY <1>1, <1>2, <1>3, <1>4, <1>5, <1>6, <1>7 DEF SearchNext, SearchStep

\* Since a feasible selection can be extended to k sets without covering less,
\* a value that no selection exceeds is the optimum.
LEMMA InvOptimum == Inv => OptimalIsOptimum
<1> SUFFICES ASSUME Inv, status = "optimal" PROVE IsOptimum(inst, best.value)
  BY DEF OptimalIsOptimum
<1>1. /\ inst \in Instances /\ best.selected \subseteq Indices(inst)
      /\ best.value \in Nat
  BY DEF Inv, SearchTypeOK, Answer
<1>2. /\ Cardinality(best.selected) <= inst.k
      /\ Value(inst, best.selected) = best.value
      /\ \A S \in Selections(inst) : Value(inst, S) <= best.value
  BY DEF Inv, BestIsFeasible, Proved
<1>3. PICK T \in Selections(inst) : best.selected \subseteq T
  BY <1>1, <1>2, Extension
<1>4. Union(inst, best.selected) \subseteq Union(inst, T)
  BY <1>3 DEF Union
<1>5. Value(inst, best.selected) <= Value(inst, T) /\ Value(inst, T) \in Nat
  BY <1>1, <1>3, <1>4, SelectionTypes, PartsOfUniverse DEF Selections, Value
<1>6. Value(inst, T) = best.value
  BY <1>1, <1>2, <1>3, <1>5
<1> QED
  BY <1>2, <1>3, <1>6 DEF IsOptimum

-----------------------------------------------------------------------------
\* The searches keep to their types, on every instance.
THEOREM TypeCorrect == SearchSpec => []SearchTypeOK
<1>1. Inv => SearchTypeOK
  BY DEF Inv
<1> QED
  BY <1>1, InitInv, NextInv, PTL DEF SearchSpec

\* A result of branch_and_bound or branch_and_bound_enhanced with the status
\* optimal has the value of the best selection of k sets, on every instance,
\* with all options, and whenever the deadline passes.
THEOREM OptimalResultsAreOptima == SearchSpec => []OptimalIsOptimum
  BY InvOptimum, InitInv, NextInv, PTL DEF SearchSpec

\* Whenever a search stops, the sets it has are at most k, and cover as many
\* elements as it says.
THEOREM BestStaysFeasible == SearchSpec => []BestIsFeasible
<1>1. Inv => BestIsFeasible
  BY DEF Inv
<1> QED
  BY <1>1, InitInv, NextInv, PTL DEF SearchSpec

-----------------------------------------------------------------------------
(***************************************************************************)
(* Lazy greedy.                                                            *)
(***************************************************************************)

\* The heap holds an upper bound for each set that is not selected.
HeapBounds ==
    \A i \in DOMAIN queue : Gain(inst, Covered, i) <= queue[i]

LazyInv == LazyTypeOK /\ HeapBounds

-----------------------------------------------------------------------------
\* The sets of an instance are finite.
LEMMA SetsFinite ==
  ASSUME NEW p \in Instances, NEW i \in Indices(p)
  PROVE  p.sets[i] \subseteq Universe /\ IsFiniteSet(p.sets[i])
<1>1. p.sets[i] \subseteq Universe
  BY CoverageAssumption DEF Indices
<1> QED
  BY <1>1, CoverageAssumption, FS_Subset

\* Gains are numbers, at most the size of the set, and shrink as more is covered.
LEMMA GainShrinks ==
  ASSUME NEW p \in Instances, NEW i \in Indices(p),
         NEW covered, NEW more, covered \subseteq more
  PROVE  /\ Gain(p, covered, i) \in Nat
         /\ Gain(p, more, i) <= Gain(p, covered, i)
         /\ Gain(p, covered, i) <= Cardinality(p.sets[i])
         /\ Cardinality(p.sets[i]) \in Nat
<1>1. IsFiniteSet(p.sets[i])
  BY SetsFinite
<1>2. /\ p.sets[i] \ covered \subseteq p.sets[i]
      /\ p.sets[i] \ more \subseteq p.sets[i] \ covered
  OBVIOUS
<1>3. IsFiniteSet(p.sets[i] \ covered)
  BY <1>1, <1>2, FS_Subset
<1>4. Gain(p, more, i) <= Gain(p, covered, i)
  BY <1>2, <1>3, FS_Subset DEF Gain
<1>5. Gain(p, covered, i) <= Cardinality(p.sets[i])
  BY <1>1, <1>2, FS_Subset DEF Gain
<1>6. Gain(p, covered, i) \in Nat /\ Cardinality(p.sets[i]) \in Nat
  BY <1>1, <1>3, FS_CardinalityType DEF Gain
<1> QED
  BY <1>4, <1>5, <1>6

\* The heap is built with the sizes of the sets.
LEMMA LazyInitInv == LazyInit => LazyInv
<1> SUFFICES ASSUME LazyInit PROVE LazyInv
  OBVIOUS
<1>1. inst \in Instances /\ selected = {}
  BY DEF LazyInit, GreedyInit
<1>2. ASSUME NEW i \in Indices(inst)
      PROVE  /\ queue[i] = Cardinality(inst.sets[i]) /\ queue[i] \in Nat
             /\ Gain(inst, Covered, i) <= queue[i]
  <2>1. queue[i] = Cardinality(inst.sets[i])
    BY DEF LazyInit
  <2> QED
    BY <1>1, <2>1, GainShrinks
<1>3. queue \in [Indices(inst) \ selected -> Nat]
  BY <1>1, <1>2 DEF LazyInit
<1>4. LazyTypeOK
  <2>1. \A i \in Indices(inst) : queue[i] <= Cardinality(inst.sets[i])
    BY <1>2
  <2> QED
    BY <1>1, <1>3, <2>1 DEF LazyTypeOK
<1>5. HeapBounds
  BY <1>1, <1>2, <1>3 DEF HeapBounds
<1> QED
  BY <1>4, <1>5 DEF LazyInv

\* What is selected leaves the heap, and the bounds that stay are bounds still.
LEMMA AcceptInv ==
  ASSUME LazyInv, NEW i \in DOMAIN queue, Accept(i)
  PROVE  LazyInv'
<1>1. /\ inst' = inst /\ inst \in Instances /\ i \in Indices(inst)
      /\ selected \subseteq Indices(inst)
      /\ selected' = selected \cup {i}
      /\ queue \in [Indices(inst) \ selected -> Nat]
      /\ queue' = [j \in DOMAIN queue \ {i} |-> queue[j]]
  BY DEF Accept, Rest, LazyInv, LazyTypeOK
<1>2. DOMAIN queue' = Indices(inst) \ selected'
  BY <1>1
<1>3. LazyTypeOK'
  BY <1>1, <1>2 DEF LazyInv, LazyTypeOK
<1>4. HeapBounds'
  <2> SUFFICES ASSUME NEW j \in DOMAIN queue'
               PROVE  Gain(inst, Covered', j) <= queue'[j]
    BY <1>1 DEF HeapBounds
  <2>1. j \in DOMAIN queue /\ j \in Indices(inst) /\ queue'[j] = queue[j]
    BY <1>1
  <2>2. Covered \subseteq Covered'
    BY <1>1 DEF Covered, Union
  <2>3. Gain(inst, Covered', j) <= Gain(inst, Covered, j)
    BY <1>1, <2>1, <2>2, GainShrinks
  <2>4. Gain(inst, Covered, j) <= queue[j]
    BY <2>1 DEF LazyInv, HeapBounds
  <2>5. /\ Gain(inst, Covered', j) \in Nat
        /\ Gain(inst, Covered, j) \in Nat
        /\ queue[j] \in Nat
    BY <1>1, <2>1, GainShrinks
  <2> QED
    BY <2>1, <2>3, <2>4, <2>5
<1> QED
  BY <1>3, <1>4 DEF LazyInv

\* A gain that goes back into the heap is exact.
LEMMA PushBackInv ==
  ASSUME LazyInv, NEW i \in DOMAIN queue, PushBack(i)
  PROVE  LazyInv'
<1>1. /\ inst' = inst /\ selected' = selected
      /\ inst \in Instances /\ i \in Indices(inst)
      /\ queue \in [Indices(inst) \ selected -> Nat]
      /\ queue' = [queue EXCEPT ![i] = Refreshed(i)]
  BY DEF PushBack, LazyInv, LazyTypeOK
<1>2. /\ Refreshed(i) \in Nat
      /\ Refreshed(i) <= Cardinality(inst.sets[i])
  BY <1>1, GainShrinks DEF Refreshed
<1>3. LazyTypeOK'
  BY <1>1, <1>2 DEF LazyInv, LazyTypeOK
<1>4. HeapBounds'
  <2>1. Gain(inst, Covered, i) <= Refreshed(i)
    BY <1>2 DEF Refreshed
  <2> QED
    BY <1>1, <2>1 DEF LazyInv, HeapBounds, Covered
<1> QED
  BY <1>3, <1>4 DEF LazyInv

\* The invariant is inductive.
LEMMA LazyNextInv ==
  ASSUME LazyInv, [LazyNext]_lazyVars
  PROVE  LazyInv'
<1>1. CASE LazyNext
  BY <1>1, AcceptInv, PushBackInv DEF LazyNext
<1>2. CASE UNCHANGED lazyVars
  BY <1>2 DEF lazyVars, LazyInv, LazyTypeOK, HeapBounds, Covered
<1> QED
  BY <1>1, <1>2

\* The heap holds the sets that are not selected, none above its size.
THEOREM LazyTypeCorrect == LazySpec => []LazyTypeOK
<1>1. LazyInv => LazyTypeOK
  BY DEF LazyInv
<1> QED
  BY LazyInitInv, LazyNextInv, <1>1, PTL DEF LazySpec

-----------------------------------------------------------------------------
\* A set whose new gain is ahead of the bounds of the others is ahead of their
\* gains, and is the one that greedy picks.
LEMMA AcceptPicks ==
  ASSUME LazyInv, NEW i \in DOMAIN queue, Accept(i)
  PROVE  GreedyPick(i) /\ i \in Available
<1>1. /\ inst' = inst /\ inst \in Instances /\ i \in Indices(inst) \ selected
      /\ DOMAIN queue = Indices(inst) \ selected
      /\ selected' = selected \cup {i}
      /\ Selecting
  BY DEF Accept, Pop, LazyInv, LazyTypeOK
<1>2. ASSUME NEW j \in Indices(inst) \ selected
      PROVE  Ahead(Refreshed(i), i, Gain(inst, Covered, j), j)
  <2>1. CASE j = i
    <3>1. i \in Nat
      BY <1>1, CoverageAssumption DEF Indices
    <3> QED
      BY <2>1, <3>1 DEF Ahead, Refreshed
  <2>2. CASE j # i
    <3>1. Ahead(Refreshed(i), i, queue[j], j)
      BY <1>1, <2>2 DEF Accept, InFront, Rest
    <3>2. Gain(inst, Covered, j) <= queue[j]
      BY <1>1 DEF LazyInv, HeapBounds
    <3>3. /\ Refreshed(i) \in Nat /\ queue[j] \in Nat
          /\ Gain(inst, Covered, j) \in Nat
      BY <1>1, GainShrinks DEF Refreshed, LazyInv, LazyTypeOK
    <3> QED
      BY <3>1, <3>2, <3>3 DEF Ahead
  <2> QED
    BY <2>1, <2>2
<1>3. Leads(i)
  BY <1>1, <1>2 DEF Leads, Available, Refreshed
<1> QED
  BY <1>1, <1>3 DEF GreedyPick, Leads

\* lazy_greedy implements greedy, for every instance.
THEOREM LazyImplementsGreedy == LazySpec => ImplementsGreedy
<1>1. LazyInit => GreedyInit
  BY DEF LazyInit
<1>2. ASSUME LazyInv, [LazyNext]_lazyVars
      PROVE  [GreedyNext]_greedyVars
  <2>1. ASSUME NEW i \in DOMAIN queue, Accept(i) PROVE GreedyNext
    <3>1. GreedyPick(i) /\ i \in Available
      BY <1>2, <2>1, AcceptPicks
    <3> QED
      BY <3>1 DEF GreedyNext
  <2>2. ASSUME NEW i \in DOMAIN queue, PushBack(i) PROVE UNCHANGED greedyVars
    BY <2>2 DEF PushBack, greedyVars
  <2>3. CASE UNCHANGED lazyVars
    BY <2>3 DEF lazyVars, greedyVars
  <2> QED
    BY <1>2, <2>1, <2>2, <2>3 DEF LazyNext
<1> QED
  BY LazyInitInv, LazyNextInv, <1>1, <1>2, PTL DEF LazySpec, ImplementsGreedy, GreedySpec

-----------------------------------------------------------------------------
(* What each algorithm keeps to.                                           *)

Chosen(S) == S \subseteq Indices(inst) /\ Cardinality(S) <= inst.k

\* A result that is not closed leaves a gap to what there is to cover.
GapLeft == status = "timeout" => best.value # Cardinality(Universe)

SearchInv == Inv /\ GapLeft

\* The best of the selections held and the one in hand have the largest value.
Highest ==
    /\ high \in {Value(inst, best.selected), Value(inst, current)}
    /\ Value(inst, best.selected) <= high /\ Value(inst, current) <= high

LocalInv ==
    /\ status \in {"greedy", "searching", "feasible", "timeout"}
    /\ status # "greedy" =>
           /\ best = [selected |-> best.selected, value |-> Value(inst, best.selected)]
           /\ best.selected \in Selections(inst) /\ current \in Selections(inst)
    /\ status = "searching" => Highest
    /\ status \in {"feasible", "timeout"} => high = Value(inst, best.selected)

OracleInv ==
    /\ status \in {"greedy", "optimal", "timeout", "error"}
    /\ Chosen(best.selected)
    /\ best = [selected |-> best.selected, value |-> Value(inst, best.selected)]
    /\ status = "error" => best.selected = {} /\ bound = None
    /\ status = "optimal" => IsOptimum(inst, best.value) /\ bound = best.value
    /\ status = "timeout" =>
           /\ bound \in Nat /\ bound > best.value
           /\ \A S \in Selections(inst) : Value(inst, S) <= bound

\* The best of the selections tried is kept, the first one until another is.
BruteInv ==
    /\ status \in {"greedy", "optimal", "timeout"}
    /\ tried \subseteq Selections(inst)
    /\ tried # {} \/ status # "greedy" =>
           /\ best = [selected |-> best.selected, value |-> Value(inst, best.selected)]
           /\ best.selected \in Selections(inst)
           /\ \A S \in tried : Value(inst, S) <= best.value
    /\ status = "optimal" => IsOptimum(inst, best.value)
    /\ GapLeft

RandomInv ==
    /\ status \in {"greedy", "feasible"}
    /\ Chosen(current)
    /\ best = [selected |-> current, value |-> Value(inst, current)]

TaskInv ==
    /\ inst \in Instances
    /\ algorithm \in {"lazy_greedy", "cp_sat_oracle", "brute_force", "randomized_greedy",
                       "branch_and_bound", "local_search"}
    /\ Chosen(selected)
    /\ algorithm = "lazy_greedy" => LazyInv /\ status = "greedy"
    /\ algorithm = "branch_and_bound" => SearchInv
    /\ algorithm = "local_search" => LocalInv
    /\ algorithm = "cp_sat_oracle" => OracleInv
    /\ algorithm = "brute_force" => BruteInv
    /\ algorithm = "randomized_greedy" => RandomInv

-----------------------------------------------------------------------------
(* Selections.                                                             *)

\* A part of the sets, at most k of them, is finite and covers a number of
\* elements, all of the universe at most.
LEMMA Chosens ==
  ASSUME inst \in Instances, NEW S, S \subseteq Indices(inst)
  PROVE  /\ IsFiniteSet(S) /\ Cardinality(S) \in Nat /\ inst.k \in Nat
         /\ Value(inst, S) \in Nat /\ Cardinality(Universe) \in Nat
         /\ Value(inst, S) <= Cardinality(Universe)
         /\ S \in Selections(inst) <=> Cardinality(S) = inst.k
<1>1. Cardinality(Universe) \in Nat
  BY CoverageAssumption, FS_CardinalityType
<1> QED
  BY <1>1, SelectionTypes, Instance DEF Selections

\* A selection is one of at most k sets, too.
LEMMA SelectionsChosen ==
  ASSUME inst \in Instances, NEW S \in Selections(inst)
  PROVE  Chosen(S) /\ S \subseteq Indices(inst)
  BY Chosens DEF Selections, Chosen

\* At most k sets cover no more than some selection of k.
LEMMA ChosenBounded ==
  ASSUME inst \in Instances, NEW S, Chosen(S)
  PROVE  \E T \in Selections(inst) : Value(inst, S) <= Value(inst, T)
<1>1. PICK T \in Selections(inst) : S \subseteq T
  BY Extension DEF Chosen
<1>2. Union(inst, S) \subseteq Union(inst, T) /\ Union(inst, T) \subseteq Universe
  BY <1>1, SelectionTypes DEF Union, Selections
<1> QED
  BY <1>1, <1>2, PartsOfUniverse DEF Value

\* A value that at most k sets have, and no selection exceeds, is the optimum.
LEMMA OptimumReached ==
  ASSUME inst \in Instances, NEW S, Chosen(S),
         \A T \in Selections(inst) : Value(inst, T) <= Value(inst, S)
  PROVE  IsOptimum(inst, Value(inst, S))
<1>1. PICK T \in Selections(inst) : Value(inst, S) <= Value(inst, T)
  BY ChosenBounded
<1>2. Value(inst, S) \in Nat /\ Value(inst, T) \in Nat
  BY <1>1, SelectionsChosen, Chosens DEF Chosen
<1>3. Value(inst, T) = Value(inst, S)
  BY <1>1, <1>2
<1> QED
  BY <1>1, <1>3 DEF IsOptimum

\* Nothing covers more than there is.
LEMMA CoversAll ==
  ASSUME inst \in Instances, NEW S, Chosen(S), Value(inst, S) = Cardinality(Universe)
  PROVE  IsOptimum(inst, Value(inst, S))
<1>1. \A T \in Selections(inst) : Value(inst, T) <= Value(inst, S)
  BY SelectionsChosen, Chosens
<1> QED
  BY <1>1, OptimumReached

\* Nothing is a part of any selection.
LEMMA NothingChosen ==
  ASSUME inst \in Instances
  PROVE  Chosen({}) /\ Value(inst, {}) = 0
<1>1. Cardinality({}) = 0
  BY FS_EmptySet
<1>2. Union(inst, {}) = {}
  BY DEF Union
<1>3. 0 <= inst.k
  BY Instance
<1> QED
  BY <1>1, <1>2, <1>3 DEF Chosen, Value

\* One more set, while fewer than k are chosen.
LEMMA OneMore ==
  ASSUME inst \in Instances, NEW S, Chosen(S), Cardinality(S) < inst.k,
         NEW i \in Indices(inst) \ S
  PROVE  Chosen(S \cup {i})
<1>1. IsFiniteSet(S) /\ Cardinality(S) \in Nat /\ inst.k \in Nat
  BY Chosens DEF Chosen
<1>2. Cardinality(S \cup {i}) = Cardinality(S) + 1
  BY <1>1, FS_AddElement
<1> QED
  BY <1>1, <1>2 DEF Chosen

\* What every algorithm that starts with greedy does with its selection.
LEMMA PickChosen ==
  ASSUME inst \in Instances, Chosen(selected), NEW i, GreedyPick(i)
  PROVE  inst' = inst /\ Chosen(selected)' /\ i \in Available
<1>1. /\ i \in Indices(inst) \ selected /\ Cardinality(selected) < inst.k
      /\ selected' = selected \cup {i} /\ inst' = inst
  BY DEF GreedyPick, Leads, Available, Selecting
<1> QED
  BY <1>1, OneMore DEF Chosen, Indices, Available

LEMMA GreedyEnds ==
  ASSUME inst \in Instances, Chosen(selected), ~Selecting
  PROVE  selected \in Selections(inst)
  BY Chosens DEF Chosen, Selecting

-----------------------------------------------------------------------------
(* local_search and multi_start_local_search.                              *)

\* The search is about the same instance, in the same words.
LEMMA LocalNames ==
  /\ \A p, S : Local!Value(p, S) = Value(p, S)
  /\ \A p : Local!Selections(p) = Selections(p) /\ Local!Indices(p) = Indices(p)
  /\ \A i : Local!GreedyPick(i) <=> GreedyPick(i)
  /\ Local!Selecting <=> Selecting
<1>0. \A S : Local!Cardinality(S) = Cardinality(S)
  BY DEF Local!Cardinality, Cardinality
<1>1. \A p, S : Local!Value(p, S) = Value(p, S)
  BY <1>0 DEF Local!Value, Local!Union, Value, Union
<1>2. \A p : Local!Selections(p) = Selections(p) /\ Local!Indices(p) = Indices(p)
  BY <1>0 DEF Local!Selections, Local!Indices, Selections, Indices
<1>3. Local!Selecting <=> Selecting
  BY <1>0 DEF Local!Selecting, Selecting
<1>4. Local!Covered = Covered /\ Local!Available = Available
  BY DEF Local!Covered, Local!Union, Local!Available, Local!Indices,
         Covered, Union, Available, Indices
<1>5. \A i : Local!Leads(i) <=> Leads(i)
  BY <1>0, <1>4 DEF Local!Leads, Local!Ahead, Local!Gain, Leads, Ahead, Gain
<1>6. \A i : Local!GreedyPick(i) <=> GreedyPick(i)
  BY <1>3, <1>5 DEF Local!GreedyPick, GreedyPick
<1> QED
  BY <1>1, <1>2, <1>3, <1>6

\* The better of the best selection so far and another.
LEMMA BetterIsBest ==
  ASSUME inst \in Instances, NEW S \in Selections(inst),
         best.selected \in Selections(inst),
         best = [selected |-> best.selected, value |-> Value(inst, best.selected)]
  PROVE  LET b == Local!Better(S)
         IN /\ b = [selected |-> b.selected, value |-> Value(inst, b.selected)]
            /\ b.selected \in Selections(inst)
            /\ b.selected \in {best.selected, S}
            /\ Value(inst, S) <= Value(inst, b.selected)
            /\ Value(inst, best.selected) <= Value(inst, b.selected)
<1> DEFINE found == [selected |-> S, value |-> Value(inst, S)]
<1>1. /\ Value(inst, S) \in Nat /\ Value(inst, best.selected) \in Nat
      /\ best.value = Value(inst, best.selected)
  BY SelectionsChosen, Chosens
<1>2. \/ Local!Better(S) = found /\ Value(inst, S) >= best.value
      \/ Local!Better(S) = best /\ ~(Value(inst, S) > best.value)
  BY <1>1, LocalNames DEF Local!Better
<1>3. CASE Local!Better(S) = found /\ Value(inst, S) >= best.value
  BY <1>1, <1>3
<1>4. CASE Local!Better(S) = best /\ ~(Value(inst, S) > best.value)
  BY <1>1, <1>4
<1> QED
  BY <1>2, <1>3, <1>4

\* Another set in the place of one.
LEMMA SwapSelects ==
  ASSUME inst \in Instances, NEW S \in Selections(inst),
         NEW out \in S, NEW in \in Indices(inst) \ S
  PROVE  (S \ {out}) \cup {in} \in Selections(inst)
<1>1. /\ IsFiniteSet(S) /\ Cardinality(S) = inst.k /\ inst.k \in Nat
      /\ S \subseteq Indices(inst)
  BY SelectionsChosen, Chosens DEF Selections
<1>2. IsFiniteSet(S \ {out}) /\ Cardinality(S \ {out}) = inst.k - 1
  BY <1>1, FS_RemoveElement
<1>3. Cardinality((S \ {out}) \cup {in}) = inst.k - 1 + 1
  BY <1>2, FS_AddElement
<1> QED
  BY <1>1, <1>3 DEF Selections

LEMMA LocalInitInv ==
  ASSUME Local!Init
  PROVE  LocalInv
  BY DEF Local!Init, LocalInv

\* Local search starts from the greedy selection.
LEMMA LocalBeginInv ==
  ASSUME inst \in Instances, Chosen(selected), LocalInv, Local!Begin
  PROVE  inst' = inst /\ selected' = selected /\ LocalInv'
<1>1. /\ status' = "searching" /\ current' = selected
      /\ best' = [selected |-> selected, value |-> Value(inst, selected)]
      /\ high' = Value(inst, selected)
      /\ inst' = inst /\ selected' = selected /\ ~Selecting
  BY LocalNames DEF Local!Begin
<1>2. selected \in Selections(inst) /\ Value(inst, selected) \in Nat
  BY <1>1, GreedyEnds, SelectionsChosen, Chosens
<1>3. Highest'
  BY <1>1, <1>2 DEF Highest
<1> QED
  BY <1>1, <1>2, <1>3 DEF LocalInv

\* What every end of a restart does: the better selection is kept, and is as
\* good as any so far.
LEMMA RestartKeeps ==
  ASSUME inst \in Instances, LocalInv, status = "searching",
         inst' = inst, best' = Local!Better(current)
  PROVE  /\ best' = [selected |-> best'.selected, value |-> Value(inst, best'.selected)]
         /\ best'.selected \in Selections(inst) /\ current \in Selections(inst)
         /\ Value(inst, best'.selected) = high /\ high \in Nat
<1>1. /\ best = [selected |-> best.selected, value |-> Value(inst, best.selected)]
      /\ best.selected \in Selections(inst) /\ current \in Selections(inst)
      /\ Highest
  BY DEF LocalInv
<1>2. /\ best' = [selected |-> best'.selected, value |-> Value(inst, best'.selected)]
      /\ best'.selected \in Selections(inst)
      /\ best'.selected \in {best.selected, current}
      /\ Value(inst, current) <= Value(inst, best'.selected)
      /\ Value(inst, best.selected) <= Value(inst, best'.selected)
  BY <1>1, BetterIsBest
<1>3. /\ Value(inst, current) \in Nat /\ Value(inst, best.selected) \in Nat
      /\ Value(inst, best'.selected) \in Nat
  BY <1>1, <1>2, SelectionsChosen, Chosens
<1> QED
  BY <1>1, <1>2, <1>3 DEF Highest

\* A swap improves the selection in hand, which may become the best so far.
LEMMA SwapInv ==
  ASSUME inst \in Instances, LocalInv, NEW pair, Local!Swap(pair)
  PROVE  inst' = inst /\ selected' = selected /\ LocalInv'
<1> DEFINE new == Local!Swapped(pair[1], pair[2])
<1>1. /\ status = "searching" /\ status' = "searching"
      /\ Local!BestSwap(pair) /\ current' = new /\ best' = Local!Better(new)
      /\ high' = IF Value(inst, new) > high THEN Value(inst, new) ELSE high
      /\ inst' = inst /\ selected' = selected
  BY LocalNames DEF Local!Swap
<1>2. /\ best = [selected |-> best.selected, value |-> Value(inst, best.selected)]
      /\ best.selected \in Selections(inst) /\ current \in Selections(inst)
      /\ Highest
  BY <1>1 DEF LocalInv
<1>3. new \in Selections(inst) /\ Value(inst, new) > Value(inst, current)
  <2>1. /\ pair[1] \in current /\ pair[2] \in Indices(inst) \ current
        /\ Value(inst, new) > Value(inst, current)
    BY <1>1, LocalNames DEF Local!BestSwap, Local!Pairs, Local!Outside, Local!ValueOf
  <2> QED
    BY <1>2, <2>1, SwapSelects DEF Local!Swapped
<1> HIDE DEF new
<1>4. /\ best' = [selected |-> best'.selected, value |-> Value(inst, best'.selected)]
      /\ best'.selected \in Selections(inst)
      /\ best'.selected \in {best.selected, new}
      /\ Value(inst, new) <= Value(inst, best'.selected)
      /\ Value(inst, best.selected) <= Value(inst, best'.selected)
  BY <1>1, <1>2, <1>3, BetterIsBest
<1>5. /\ Value(inst, current) \in Nat /\ Value(inst, best.selected) \in Nat
      /\ Value(inst, best'.selected) \in Nat /\ Value(inst, new) \in Nat
  BY <1>2, <1>3, <1>4, SelectionsChosen, Chosens
<1>6. Highest'
  BY <1>1, <1>2, <1>3, <1>4, <1>5 DEF Highest
<1> QED
  BY <1>1, <1>3, <1>4, <1>6 DEF LocalInv

\* A restart begins with a selection that may be the best so far.
LEMMA NextRestartInv ==
  ASSUME inst \in Instances, LocalInv, Local!NextRestart
  PROVE  inst' = inst /\ selected' = selected /\ LocalInv'
<1>1. /\ status = "searching" /\ status' = "searching" /\ best' = Local!Better(current)
      /\ inst' = inst /\ selected' = selected
  BY DEF Local!NextRestart, Local!RestartOver
<1>2. PICK S \in Selections(inst) :
          /\ current' = S
          /\ high' = IF Value(inst, S) > high THEN Value(inst, S) ELSE high
  BY LocalNames DEF Local!NextRestart
<1>3. /\ best' = [selected |-> best'.selected, value |-> Value(inst, best'.selected)]
      /\ best'.selected \in Selections(inst)
      /\ Value(inst, best'.selected) = high /\ high \in Nat
  BY <1>1, RestartKeeps
<1>4. Value(inst, S) \in Nat
  BY SelectionsChosen, Chosens
<1>5. Highest'
  BY <1>1, <1>2, <1>3, <1>4 DEF Highest
<1> QED
  BY <1>1, <1>2, <1>3, <1>5 DEF LocalInv

\* The end, in time or not, keeps the better of the last selection and the best.
LEMMA LocalEndInv ==
  ASSUME inst \in Instances, LocalInv, Local!Finish \/ Local!Timeout
  PROVE  inst' = inst /\ selected' = selected /\ LocalInv'
<1>1. /\ status = "searching" /\ status' \in {"feasible", "timeout"}
      /\ best' = Local!Better(current) /\ current' = current /\ high' = high
      /\ inst' = inst /\ selected' = selected
  BY DEF Local!Finish, Local!Timeout, Local!RestartOver
<1>2. /\ best' = [selected |-> best'.selected, value |-> Value(inst, best'.selected)]
      /\ best'.selected \in Selections(inst) /\ current \in Selections(inst)
      /\ Value(inst, best'.selected) = high
  BY <1>1, RestartKeeps
<1> QED
  BY <1>1, <1>2 DEF LocalInv

\* A step of local search.
LEMMA LocalNextInv ==
  ASSUME inst \in Instances, Chosen(selected), LocalInv, Local!Step \/ Local!Timeout
  PROVE  inst' = inst /\ Chosen(selected)' /\ LocalInv' /\ [GreedyNext]_greedyVars
<1>1. ASSUME NEW i, Local!Pick(i) PROVE inst' = inst /\ Chosen(selected)' /\ LocalInv'
                                        /\ GreedyNext
  <2>1. GreedyPick(i) /\ status = "greedy" /\ status' = "greedy"
    BY <1>1, LocalNames DEF Local!Pick
  <2>2. LocalInv'
    BY <2>1 DEF LocalInv
  <2> QED
    BY <2>1, <2>2, PickChosen DEF GreedyNext
<1>2. ASSUME inst' = inst, selected' = selected
      PROVE  Chosen(selected)' /\ UNCHANGED greedyVars
  BY <1>2 DEF Chosen, Indices, greedyVars
<1>3. CASE Local!Begin
  BY <1>2, <1>3, LocalBeginInv
<1>4. CASE \E pair \in Local!Pairs : Local!Swap(pair)
  BY <1>2, <1>4, SwapInv
<1>5. CASE Local!NextRestart
  BY <1>2, <1>5, NextRestartInv
<1>6. CASE Local!Finish \/ Local!Timeout
  BY <1>2, <1>6, LocalEndInv
<1> QED
  BY <1>1, <1>3, <1>4, <1>5, <1>6 DEF Local!Step

-----------------------------------------------------------------------------
(* cp_sat_oracle.                                                          *)

\* The oracle is about the same instance, in the same words.
LEMMA OracleNames ==
  /\ \A p, S : CpSat!Value(p, S) = Value(p, S)
  /\ \A p : CpSat!Selections(p) = Selections(p) /\ CpSat!Indices(p) = Indices(p)
  /\ \A p, v : CpSat!IsOptimum(p, v) <=> IsOptimum(p, v)
  /\ \A i : CpSat!GreedyPick(i) <=> GreedyPick(i)
  /\ CpSat!Selecting <=> Selecting
  /\ \A S : S \in CpSat!Admitted <=> Chosen(S)
<1>0. \A S : CpSat!Cardinality(S) = Cardinality(S)
  BY DEF CpSat!Cardinality, Cardinality
<1>1. \A p, S : CpSat!Value(p, S) = Value(p, S)
  BY <1>0 DEF CpSat!Value, CpSat!Union, Value, Union
<1>2. \A p : CpSat!Selections(p) = Selections(p) /\ CpSat!Indices(p) = Indices(p)
  BY <1>0 DEF CpSat!Selections, CpSat!Indices, Selections, Indices
<1>3. \A p, v : CpSat!IsOptimum(p, v) <=> IsOptimum(p, v)
  BY <1>1, <1>2 DEF CpSat!IsOptimum, IsOptimum
<1>4. CpSat!Selecting <=> Selecting
  BY <1>0 DEF CpSat!Selecting, Selecting
<1>5. CpSat!Covered = Covered /\ CpSat!Available = Available
  BY DEF CpSat!Covered, CpSat!Union, CpSat!Available, CpSat!Indices,
         Covered, Union, Available, Indices
<1>6. \A i : CpSat!Leads(i) <=> Leads(i)
  BY <1>0, <1>5 DEF CpSat!Leads, CpSat!Ahead, CpSat!Gain, Leads, Ahead, Gain
<1>7. \A i : CpSat!GreedyPick(i) <=> GreedyPick(i)
  BY <1>4, <1>6 DEF CpSat!GreedyPick, GreedyPick
<1>8. \A S : S \in CpSat!Admitted <=> Chosen(S)
  BY <1>0, <1>2 DEF CpSat!Admitted, Chosen
<1> QED
  BY <1>1, <1>2, <1>3, <1>4, <1>7, <1>8

\* What the external solver may answer, in the words of the instance: an optimal
\* selection, or one of at most k sets with a bound that no selection exceeds.
LEMMA AnswersMean ==
  ASSUME inst \in Instances, NEW answer \in CpSat!Answers
  PROVE  /\ answer.status = "OPTIMAL" =>
                Chosen(answer.selected) /\ IsOptimum(inst, Value(inst, answer.selected))
         /\ answer.status = "FEASIBLE" =>
                /\ Chosen(answer.selected)
                /\ answer.bound # None =>
                       /\ answer.bound \in Nat /\ answer.bound <= Cardinality(Universe)
                       /\ \A S \in Selections(inst) : Value(inst, S) <= answer.bound
<1> DEFINE optimum == {v \in 0 .. Cardinality(Universe) : IsOptimum(inst, v)}
           bounds == {b \in 0 .. Cardinality(Universe) : \E v \in optimum : b >= v}
<1>1. \A S : CpSat!Cardinality(S) = Cardinality(S)
  BY DEF CpSat!Cardinality, Cardinality
<1>2. answer \in [status : {"OPTIMAL"}, bound : {None},
                  selected : {S \in CpSat!Admitted : Value(inst, S) \in optimum}]
             \cup [status : {"FEASIBLE"}, bound : bounds \cup {None},
                   selected : CpSat!Admitted]
             \cup [status : {"UNKNOWN", "MODEL_INVALID"}, bound : {None}, selected : {{}}]
  BY <1>1, OracleNames DEF CpSat!Answers
<1>3. ASSUME answer.status = "OPTIMAL"
      PROVE  Chosen(answer.selected) /\ IsOptimum(inst, Value(inst, answer.selected))
  <2>1. answer.selected \in CpSat!Admitted /\ Value(inst, answer.selected) \in optimum
    BY <1>2, <1>3
  <2> QED
    BY <2>1, OracleNames
<1>4. ASSUME answer.status = "FEASIBLE"
      PROVE  Chosen(answer.selected) /\ answer.bound \in bounds \cup {None}
  <2>1. answer.selected \in CpSat!Admitted /\ answer.bound \in bounds \cup {None}
    BY <1>2, <1>4
  <2> QED
    BY <2>1, OracleNames
<1>5. ASSUME NEW b \in bounds
      PROVE  /\ b \in Nat /\ b <= Cardinality(Universe)
             /\ \A S \in Selections(inst) : Value(inst, S) <= b
  <2>1. Cardinality(Universe) \in Nat
    BY Chosens, NothingChosen DEF Chosen
  <2>2. PICK v \in Nat : IsOptimum(inst, v) /\ b >= v
    BY <2>1
  <2>3. b \in Nat /\ b <= Cardinality(Universe)
    BY <2>1
  <2>4. ASSUME NEW S \in Selections(inst) PROVE Value(inst, S) <= b
    <3>1. Value(inst, S) <= v /\ Value(inst, S) \in Nat
      BY <2>2, SelectionsChosen, Chosens DEF IsOptimum
    <3> QED
      BY <2>2, <2>3, <3>1
  <2> QED
    BY <2>3, <2>4
<1> QED
  BY <1>3, <1>4, <1>5

LEMMA OracleInitInv ==
  ASSUME inst \in Instances, CpSat!Init
  PROVE  OracleInv
<1>1. /\ best = [selected |-> {}, value |-> 0] /\ status = "greedy"
      /\ Chosen({}) /\ Value(inst, {}) = 0
  BY NothingChosen DEF CpSat!Init
<1>2. /\ best.selected = {}
      /\ best = [selected |-> best.selected, value |-> Value(inst, best.selected)]
  BY <1>1
<1> QED
  BY <1>1, <1>2 DEF OracleInv

\* The bound of an open result is above its value and above every selection.
LEMMA OpenBoundHolds ==
  ASSUME inst \in Instances, NEW answer \in CpSat!Answers,
         answer.status = "FEASIBLE", NEW value \in Nat,
         value < Cardinality(Universe), Cardinality(Universe) \in Nat
  PROVE  /\ CpSat!OpenBound(answer, value) \in Nat
         /\ CpSat!OpenBound(answer, value) > value
         /\ \A S \in Selections(inst) : Value(inst, S) <= CpSat!OpenBound(answer, value)
<1> DEFINE most == Cardinality(Universe)
           b == CpSat!OpenBound(answer, value)
<1>1. CpSat!Cardinality(Universe) = most
  BY DEF CpSat!Cardinality, Cardinality
<1>2. most \in Nat /\ value < most
  OBVIOUS
<1>3. \A S \in Selections(inst) : Value(inst, S) <= most /\ Value(inst, S) \in Nat
  BY SelectionsChosen, Chosens
<1>4. CASE answer.bound = None
  <2>1. b = most
    BY <1>1, <1>4 DEF CpSat!OpenBound
  <2> QED
    BY <1>2, <1>3, <2>1
<1>5. CASE answer.bound # None
  <2>1. /\ answer.bound \in Nat /\ answer.bound <= most
        /\ \A S \in Selections(inst) : Value(inst, S) <= answer.bound
    BY <1>5, AnswersMean
  <2>2. b = CpSat!Smallest(most, CpSat!Largest(value + 1, answer.bound))
    BY <1>1, <1>5 DEF CpSat!OpenBound
  <2> HIDE DEF most, b
  <2>3. b \in Nat /\ b > value /\ b >= answer.bound
    BY <1>2, <2>1, <2>2 DEF CpSat!Smallest, CpSat!Largest
  <2>4. ASSUME NEW S \in Selections(inst) PROVE Value(inst, S) <= b
    BY <1>3, <2>1, <2>3
  <2> QED
    BY <2>3, <2>4 DEF b
<1> QED
  BY <1>4, <1>5

\* A solution is optimal if it is proved to be or covers everything.
LEMMA SolvedInv ==
  ASSUME inst \in Instances, OracleInv, NEW answer \in CpSat!Answers, CpSat!Solved(answer)
  PROVE  inst' = inst /\ selected' = selected /\ OracleInv'
<1> DEFINE S == answer.selected
           v == Value(inst, S)
<1>1. /\ inst' = inst /\ selected' = selected
      /\ answer.status \in {"OPTIMAL", "FEASIBLE"}
      /\ IF answer.status = "OPTIMAL" \/ CpSat!Covers(v)
         THEN CpSat!Report("optimal", S, v, v)
         ELSE CpSat!Report("timeout", S, v, CpSat!OpenBound(answer, v))
  BY OracleNames DEF CpSat!Solved, CpSat!Solving
<1>2. Chosen(S)
  BY <1>1, AnswersMean
<1>3. /\ v \in Nat /\ Cardinality(Universe) \in Nat /\ v <= Cardinality(Universe)
      /\ CpSat!Cardinality(Universe) = Cardinality(Universe)
  BY <1>2, Chosens DEF Chosen, CpSat!Cardinality, Cardinality
<1>4. CASE answer.status = "OPTIMAL" \/ CpSat!Covers(v)
  <2>1. IsOptimum(inst, v)
    BY <1>2, <1>3, <1>4, AnswersMean, CoversAll DEF CpSat!Covers
  <2>2. /\ status' = "optimal" /\ best' = [selected |-> S, value |-> v] /\ bound' = v
    BY <1>1, <1>4 DEF CpSat!Report
  <2> QED
    BY <1>1, <1>2, <2>1, <2>2 DEF OracleInv, Chosen, Indices
<1>5. CASE ~(answer.status = "OPTIMAL" \/ CpSat!Covers(v))
  <2>1. /\ status' = "timeout" /\ best' = [selected |-> S, value |-> v]
        /\ bound' = CpSat!OpenBound(answer, v)
    BY <1>1, <1>5 DEF CpSat!Report
  <2>2. v < Cardinality(Universe) /\ answer.status = "FEASIBLE"
    BY <1>1, <1>3, <1>5 DEF CpSat!Covers
  <2>3. /\ bound' \in Nat /\ bound' > v
        /\ \A T \in Selections(inst) : Value(inst, T) <= bound'
    BY <1>3, <2>1, <2>2, OpenBoundHolds
  <2> QED
    BY <1>1, <1>2, <2>1, <2>3 DEF OracleInv, Chosen, Indices
<1> QED
  BY <1>4, <1>5

\* Without a solution the greedy selection is the result.
LEMMA UnsolvedInv ==
  ASSUME inst \in Instances, Chosen(selected), OracleInv, NEW answer, CpSat!Unsolved(answer)
  PROVE  inst' = inst /\ selected' = selected /\ OracleInv'
<1> DEFINE v == Value(inst, selected)
<1>1. /\ inst' = inst /\ selected' = selected
      /\ IF CpSat!Covers(v) THEN CpSat!Report("optimal", selected, v, v)
         ELSE CpSat!Report("timeout", selected, v, CpSat!Cardinality(Universe))
  BY OracleNames DEF CpSat!Unsolved, CpSat!Solving
<1>2. /\ v \in Nat /\ Cardinality(Universe) \in Nat /\ v <= Cardinality(Universe)
      /\ CpSat!Cardinality(Universe) = Cardinality(Universe)
  BY Chosens DEF Chosen, CpSat!Cardinality, Cardinality
<1>3. CASE CpSat!Covers(v)
  <2>1. IsOptimum(inst, v)
    BY <1>2, <1>3, CoversAll DEF CpSat!Covers
  <2>2. /\ status' = "optimal" /\ best' = [selected |-> selected, value |-> v] /\ bound' = v
    BY <1>1, <1>3 DEF CpSat!Report
  <2> QED
    BY <1>1, <2>1, <2>2 DEF OracleInv, Chosen, Indices
<1>4. CASE ~CpSat!Covers(v)
  <2>1. /\ status' = "timeout" /\ best' = [selected |-> selected, value |-> v]
        /\ bound' = Cardinality(Universe)
    BY <1>1, <1>2, <1>4 DEF CpSat!Report
  <2>2. v < Cardinality(Universe)
    BY <1>2, <1>4 DEF CpSat!Covers
  <2>3. \A T \in Selections(inst) : Value(inst, T) <= Cardinality(Universe)
    BY SelectionsChosen, Chosens
  <2> QED
    BY <1>1, <1>2, <2>1, <2>2, <2>3 DEF OracleInv, Chosen, Indices
<1> QED
  BY <1>3, <1>4

\* An error comes with nothing.
LEMMA RejectedInv ==
  ASSUME inst \in Instances, OracleInv, NEW answer, CpSat!Rejected(answer)
  PROVE  inst' = inst /\ selected' = selected /\ OracleInv'
<1>1. /\ inst' = inst /\ selected' = selected /\ status' = "error"
      /\ best' = [selected |-> {}, value |-> 0] /\ bound' = None
  BY DEF CpSat!Rejected, CpSat!Solving, CpSat!Report
<1>2. Chosen({}) /\ Value(inst, {}) = 0
  BY NothingChosen
<1> QED
  BY <1>1, <1>2 DEF OracleInv, Chosen, Indices

\* A step of the oracle.
LEMMA OracleNextInv ==
  ASSUME inst \in Instances, Chosen(selected), OracleInv, CpSat!Step
  PROVE  inst' = inst /\ Chosen(selected)' /\ OracleInv' /\ [GreedyNext]_greedyVars
<1>1. ASSUME NEW i, CpSat!Pick(i)
      PROVE  inst' = inst /\ Chosen(selected)' /\ OracleInv' /\ GreedyNext
  <2>1. /\ GreedyPick(i) /\ status = "greedy" /\ status' = "greedy"
        /\ best' = best /\ bound' = bound
    BY <1>1, OracleNames DEF CpSat!Pick
  <2>2. inst' = inst /\ Chosen(selected)' /\ GreedyNext
    BY <2>1, PickChosen DEF GreedyNext
  <2> QED
    BY <2>1, <2>2 DEF OracleInv, Chosen, Indices
<1>2. ASSUME inst' = inst, selected' = selected
      PROVE  Chosen(selected)' /\ UNCHANGED greedyVars
  BY <1>2 DEF Chosen, Indices, greedyVars
<1>3. ASSUME NEW answer \in CpSat!Answers,
             CpSat!Solved(answer) \/ CpSat!Unsolved(answer) \/ CpSat!Rejected(answer)
      PROVE  inst' = inst /\ selected' = selected /\ OracleInv'
  BY <1>3, SolvedInv, UnsolvedInv, RejectedInv
<1> QED
  BY <1>1, <1>2, <1>3 DEF CpSat!Step

-----------------------------------------------------------------------------
(* brute_force and randomized_greedy.                                      *)

\* The baselines are about the same instance, in the same words.
LEMMA BaseNames ==
  /\ \A S : Base!Cardinality(S) = Cardinality(S)
  /\ \A p, S : Base!Value(p, S) = Value(p, S)
  /\ \A p : Base!Selections(p) = Selections(p) /\ Base!Indices(p) = Indices(p)
<1>1. \A S : Base!Cardinality(S) = Cardinality(S)
  BY DEF Base!Cardinality, Cardinality
<1>2. \A p, S : Base!Value(p, S) = Value(p, S)
  BY <1>1 DEF Base!Value, Base!Union, Value, Union
<1> QED
  BY <1>1, <1>2 DEF Base!Selections, Base!Indices, Selections, Indices

\* The first k sets are a selection.
LEMMA FirstSets ==
  ASSUME inst \in Instances
  PROVE  1 .. inst.k \in Selections(inst)
<1> DEFINE k == inst.k
<1>1. k \in Nat \ {0} /\ k <= Len(inst.sets) /\ Indices(inst) = 1 .. Len(inst.sets)
      /\ Len(inst.sets) \in Nat
  BY Instance
<1> HIDE DEF k
<1>2. Cardinality(1 .. k) = k
  <2>1. 1 \in Int /\ k \in Int
    BY <1>1
  <2>2. Cardinality(1 .. k) = IF 1 > k THEN 0 ELSE k - 1 + 1
    BY <2>1, FS_Interval
  <2> QED
    BY <1>1, <2>2
<1>3. 1 .. k \subseteq Indices(inst)
  BY <1>1
<1> QED
  BY <1>2, <1>3 DEF k, Selections

\* What is kept before a selection is tried: the first k sets, or the best of
\* those that were tried.
LEMMA IncumbentBest ==
  ASSUME inst \in Instances, BruteInv, status = "greedy"
  PROVE  LET b == Base!Incumbent
         IN /\ b = [selected |-> b.selected, value |-> Value(inst, b.selected)]
            /\ b.selected \in Selections(inst)
            /\ \A S \in tried : Value(inst, S) <= b.value
<1>1. CASE tried = {}
  <2>1. Base!Incumbent = [selected |-> 1 .. inst.k, value |-> Value(inst, 1 .. inst.k)]
    BY <1>1, BaseNames DEF Base!Incumbent, Base!Found
  <2> QED
    BY <1>1, <2>1, FirstSets
<1>2. CASE tried # {}
  BY <1>2 DEF Base!Incumbent, BruteInv
<1> QED
  BY <1>1, <1>2

LEMMA EvaluateInv ==
  ASSUME inst \in Instances, BruteInv, NEW S, Base!Evaluate(S)
  PROVE  inst' = inst /\ BruteInv'
<1> DEFINE b == Base!Incumbent
           found == [selected |-> S, value |-> Value(inst, S)]
<1>1. /\ inst' = inst /\ status = "greedy" /\ status' = "greedy"
      /\ S \in Selections(inst) /\ tried' = tried \cup {S}
      /\ best' = IF Value(inst, S) > b.value THEN found ELSE b
  BY BaseNames DEF Base!Evaluate, Base!Untried, Base!Found
<1>2. /\ b = [selected |-> b.selected, value |-> Value(inst, b.selected)]
      /\ b.selected \in Selections(inst)
      /\ \A T \in tried : Value(inst, T) <= b.value
  BY <1>1, IncumbentBest
<1> HIDE DEF b
<1>3. b.value = Value(inst, b.selected)
  BY <1>2
<1>4. /\ Value(inst, S) \in Nat /\ b.value \in Nat /\ tried \subseteq Selections(inst)
      /\ \A T \in tried : Value(inst, T) \in Nat
  BY <1>1, <1>2, <1>3, SelectionsChosen, Chosens DEF BruteInv
<1>5. /\ best' = [selected |-> best'.selected, value |-> Value(inst, best'.selected)]
      /\ best'.selected \in Selections(inst)
      /\ \A T \in tried' : Value(inst, T) <= best'.value
  <2>1. CASE Value(inst, S) > b.value
    <3>1. best' = found
      BY <1>1, <2>1
    <3> QED
      BY <1>1, <1>2, <1>4, <2>1, <3>1
  <2>2. CASE ~(Value(inst, S) > b.value)
    <3>1. best' = b
      BY <1>1, <2>2
    <3> QED
      BY <1>1, <1>2, <1>3, <1>4, <2>2, <3>1
  <2> QED
    BY <2>1, <2>2
<1> QED
  BY <1>1, <1>4, <1>5 DEF BruteInv, GapLeft

\* When all selections have been tried, the best of them is the optimum.
LEMMA ExhaustedInv ==
  ASSUME inst \in Instances, BruteInv, Base!Exhausted
  PROVE  inst' = inst /\ BruteInv'
<1>1. /\ inst' = inst /\ status = "greedy" /\ status' = "optimal"
      /\ tried' = tried /\ best' = best /\ Selections(inst) \ tried = {}
  BY BaseNames DEF Base!Exhausted, Base!Untried
<1>2. tried = Selections(inst) /\ tried # {}
  BY <1>1, FirstSets DEF BruteInv
<1>3. /\ best = [selected |-> best.selected, value |-> Value(inst, best.selected)]
      /\ best.selected \in Selections(inst)
      /\ \A S \in Selections(inst) : Value(inst, S) <= best.value
  BY <1>2 DEF BruteInv
<1>4. IsOptimum(inst, best.value)
  BY <1>3 DEF IsOptimum
<1> QED
  BY <1>1, <1>2, <1>3, <1>4 DEF BruteInv, GapLeft

\* Out of time the best so far is the result: optimal only if it covers all.
LEMMA OutOfTimeInv ==
  ASSUME inst \in Instances, BruteInv, Base!OutOfTime
  PROVE  inst' = inst /\ BruteInv'
<1>1. /\ inst' = inst /\ status = "greedy" /\ tried' = tried
      /\ best' = Base!Incumbent
      /\ status' = IF best'.value = Cardinality(Universe) THEN "optimal" ELSE "timeout"
  BY BaseNames DEF Base!OutOfTime
<1>2. /\ best' = [selected |-> best'.selected, value |-> Value(inst, best'.selected)]
      /\ best'.selected \in Selections(inst)
      /\ \A T \in tried : Value(inst, T) <= best'.value
  BY <1>1, IncumbentBest
<1>3. status' = "optimal" => IsOptimum(inst, best'.value)
  <2>1. best'.value = Value(inst, best'.selected) /\ Chosen(best'.selected)
    BY <1>2, SelectionsChosen
  <2> QED
    BY <1>1, <2>1, CoversAll
<1> QED
  BY <1>1, <1>2, <1>3 DEF BruteInv, GapLeft

\* One more set is drawn until there are k.
LEMMA DrawInv ==
  ASSUME inst \in Instances, RandomInv, NEW i, Base!Draw(i)
  PROVE  inst' = inst /\ RandomInv'
<1>1. /\ inst' = inst /\ status = "greedy" /\ Cardinality(current) < inst.k
      /\ i \in Indices(inst) \ current /\ current' = current \cup {i}
      /\ best' = [selected |-> current', value |-> Value(inst, current')]
      /\ status' \in {"feasible", status}
  BY BaseNames DEF Base!Draw, Base!Restricted, Base!Unselected, Base!Found
<1>2. Chosen(current \cup {i})
  BY <1>1, OneMore DEF RandomInv
<1> QED
  BY <1>1, <1>2 DEF RandomInv, Chosen, Indices

-----------------------------------------------------------------------------
(* Any algorithm.                                                          *)

LEMMA TaskInit == Init => TaskInv /\ GreedyInit
<1> SUFFICES ASSUME Init PROVE TaskInv /\ GreedyInit
  OBVIOUS
<1>1. /\ inst \in Instances /\ selected = {} /\ GreedyInit
      /\ best = [selected |-> {}, value |-> 0] /\ status = "greedy"
      /\ tried = {} /\ current = {}
  BY DEF Init, LazyInit, GreedyInit, SearchInit, Base!BaseInit
<1>2. Chosen({}) /\ Value(inst, {}) = 0
  BY <1>1, NothingChosen
<1>3. LazyInv
  BY LazyInitInv DEF Init
<1>4. SearchInv
  BY <1>1, InitInv DEF Init, SearchInv, GapLeft
<1>5. LocalInv
  BY LocalInitInv DEF Init
<1>6. OracleInv
  BY <1>1, OracleInitInv DEF Init
<1>7. BruteInv
  BY <1>1 DEF BruteInv, GapLeft
<1>8. RandomInv
  BY <1>1, <1>2 DEF RandomInv
<1>9. algorithm \in {"lazy_greedy", "cp_sat_oracle", "brute_force", "randomized_greedy",
                      "branch_and_bound", "local_search"}
  BY DEF Init
<1> QED
  BY <1>1, <1>2, <1>3, <1>4, <1>5, <1>6, <1>7, <1>8, <1>9 DEF TaskInv

\* A step of lazy_greedy.
LEMMA LazyTaskInv ==
  ASSUME TaskInv, LazyTask
  PROVE  TaskInv' /\ [GreedyNext]_greedyVars
<1>1. /\ LazyInv /\ LazyNext /\ inst \in Instances /\ Chosen(selected)
      /\ algorithm = "lazy_greedy" /\ algorithm' = algorithm
      /\ status = "greedy" /\ status' = status
  BY DEF LazyTask, TaskInv
<1>2. LazyInv'
  BY <1>1, LazyNextInv
<1>3. CASE \E i \in DOMAIN queue : Accept(i)
  <2>1. PICK i \in DOMAIN queue : GreedyPick(i) /\ i \in Available
    BY <1>1, <1>3, AcceptPicks
  <2>2. inst' = inst /\ Chosen(selected)' /\ GreedyNext
    BY <1>1, <2>1, PickChosen DEF GreedyNext
  <2> QED
    BY <1>1, <1>2, <2>2 DEF TaskInv
<1>4. CASE \E i \in DOMAIN queue : PushBack(i)
  <2>1. inst' = inst /\ selected' = selected
    BY <1>4 DEF PushBack
  <2>2. Chosen(selected)' /\ UNCHANGED greedyVars
    BY <1>1, <2>1 DEF Chosen, Indices, greedyVars
  <2> QED
    BY <1>1, <1>2, <2>1, <2>2 DEF TaskInv
<1> QED
  BY <1>1, <1>3, <1>4 DEF LazyNext

\* A step of branch and bound, or its deadline.
LEMMA SearchTaskInv ==
  ASSUME TaskInv, SearchTask \/ SearchTimeout
  PROVE  TaskInv' /\ [GreedyNext]_greedyVars
<1>1. /\ SearchInv /\ inst \in Instances /\ Chosen(selected)
      /\ SearchStep \/ Timeout
      /\ algorithm = "branch_and_bound" /\ algorithm' = algorithm
  BY DEF SearchTask, SearchTimeout, TaskInv
<1>2. Inv'
  BY <1>1, NextInv DEF SearchInv, SearchNext
<1>3. GapLeft'
  <2>1. CASE Timeout
    BY <2>1 DEF Timeout, GapLeft
  <2>2. CASE SearchStep
    BY <2>2 DEF SearchStep, Pick, Begin, Branch, VisitClosed, Finish, Searching, GapLeft
  <2> QED
    BY <1>1, <2>1, <2>2
<1>4. CASE \E i \in Indices(inst) : Pick(i)
  <2>1. PICK i \in Indices(inst) : GreedyPick(i)
    BY <1>4 DEF Pick
  <2>2. inst' = inst /\ Chosen(selected)' /\ GreedyNext
    BY <1>1, <2>1, PickChosen DEF GreedyNext
  <2> QED
    BY <1>1, <1>2, <1>3, <2>2 DEF TaskInv, SearchInv
<1>5. CASE ~\E i \in Indices(inst) : Pick(i)
  <2>1. inst' = inst /\ selected' = selected
    BY <1>1, <1>5 DEF SearchStep, Begin, Branch, VisitClosed, Finish, Timeout
  <2>2. Chosen(selected)' /\ UNCHANGED greedyVars
    BY <1>1, <2>1 DEF Chosen, Indices, greedyVars
  <2> QED
    BY <1>1, <1>2, <1>3, <2>1, <2>2 DEF TaskInv, SearchInv
<1> QED
  BY <1>4, <1>5

\* A step of local search, or its deadline.
LEMMA LocalTaskInv ==
  ASSUME TaskInv, LocalTask \/ LocalTimeout
  PROVE  TaskInv' /\ [GreedyNext]_greedyVars
<1>1. /\ LocalInv /\ inst \in Instances /\ Chosen(selected)
      /\ Local!Step \/ Local!Timeout
      /\ algorithm = "local_search" /\ algorithm' = algorithm
  BY DEF LocalTask, LocalTimeout, TaskInv
<1>2. inst' = inst /\ Chosen(selected)' /\ LocalInv' /\ [GreedyNext]_greedyVars
  BY <1>1, LocalNextInv
<1> QED
  BY <1>1, <1>2 DEF TaskInv

\* A step of the oracle.
LEMMA OracleTaskInv ==
  ASSUME TaskInv, OracleTask
  PROVE  TaskInv' /\ [GreedyNext]_greedyVars
<1>1. /\ OracleInv /\ inst \in Instances /\ Chosen(selected) /\ CpSat!Step
      /\ algorithm = "cp_sat_oracle" /\ algorithm' = algorithm
  BY DEF OracleTask, TaskInv
<1>2. inst' = inst /\ Chosen(selected)' /\ OracleInv' /\ [GreedyNext]_greedyVars
  BY <1>1, OracleNextInv
<1> QED
  BY <1>1, <1>2 DEF TaskInv

\* A step of brute_force, or its deadline.
LEMMA BruteTaskInv ==
  ASSUME TaskInv, BruteTask \/ BruteTimeout
  PROVE  TaskInv' /\ [GreedyNext]_greedyVars
<1>1. /\ BruteInv /\ inst \in Instances /\ Chosen(selected)
      /\ Base!Enumerate \/ Base!OutOfTime
      /\ algorithm = "brute_force" /\ algorithm' = algorithm /\ selected' = selected
  BY DEF BruteTask, BruteTimeout, TaskInv, baseRest
<1>2. inst' = inst /\ BruteInv'
  BY <1>1, EvaluateInv, ExhaustedInv, OutOfTimeInv DEF Base!Enumerate
<1>3. Chosen(selected)' /\ UNCHANGED greedyVars
  BY <1>1, <1>2 DEF Chosen, Indices, greedyVars
<1> QED
  BY <1>1, <1>2, <1>3 DEF TaskInv

\* A step of randomized_greedy.
LEMMA RandomTaskInv ==
  ASSUME TaskInv, RandomTask
  PROVE  TaskInv' /\ [GreedyNext]_greedyVars
<1>1. /\ RandomInv /\ inst \in Instances /\ Chosen(selected) /\ Base!Randomize
      /\ algorithm = "randomized_greedy" /\ algorithm' = algorithm /\ selected' = selected
  BY DEF RandomTask, TaskInv, baseRest
<1>2. inst' = inst /\ RandomInv'
  BY <1>1, DrawInv DEF Base!Randomize
<1>3. Chosen(selected)' /\ UNCHANGED greedyVars
  BY <1>1, <1>2 DEF Chosen, Indices, greedyVars
<1> QED
  BY <1>1, <1>2, <1>3 DEF TaskInv

LEMMA TaskStutter ==
  ASSUME TaskInv, UNCHANGED vars
  PROVE  TaskInv' /\ UNCHANGED greedyVars
<1>1. /\ inst' = inst /\ selected' = selected /\ algorithm' = algorithm /\ queue' = queue
      /\ options' = options /\ pending' = pending /\ current' = current /\ high' = high
      /\ best' = best /\ status' = status /\ bound' = bound /\ tried' = tried
  BY DEF vars, searchLocals, localLocals, bruteLocals
<1>2. UNCHANGED greedyVars /\ (Chosen(selected) => Chosen(selected)')
  BY <1>1 DEF greedyVars, Chosen, Indices
<1>3. LazyInv => LazyInv'
  BY <1>1, LazyNextInv DEF lazyVars
<1>4. SearchInv => SearchInv'
  BY <1>1, NextInv DEF searchVars, SearchInv, GapLeft
<1>5. LocalInv => LocalInv'
  BY <1>1 DEF LocalInv, Highest
<1>6. OracleInv => OracleInv'
  BY <1>1 DEF OracleInv, Chosen, Indices
<1>7. BruteInv => BruteInv'
  BY <1>1 DEF BruteInv, GapLeft
<1>8. RandomInv => RandomInv'
  BY <1>1 DEF RandomInv, Chosen, Indices
<1> QED
  BY <1>1, <1>2, <1>3, <1>4, <1>5, <1>6, <1>7, <1>8 DEF TaskInv

\* The invariant is inductive, and every step is one of greedy or none.
LEMMA TaskNext ==
  ASSUME TaskInv, [Next]_vars
  PROVE  TaskInv' /\ [GreedyNext]_greedyVars
<1>1. CASE LazyTask
  BY <1>1, LazyTaskInv
<1>2. CASE SearchTask \/ SearchTimeout
  BY <1>2, SearchTaskInv
<1>3. CASE LocalTask \/ LocalTimeout
  BY <1>3, LocalTaskInv
<1>4. CASE OracleTask
  BY <1>4, OracleTaskInv
<1>5. CASE BruteTask \/ BruteTimeout
  BY <1>5, BruteTaskInv
<1>6. CASE RandomTask
  BY <1>6, RandomTaskInv
<1>7. CASE UNCHANGED vars
  BY <1>7, TaskStutter
<1> QED
  BY <1>1, <1>2, <1>3, <1>4, <1>5, <1>6, <1>7 DEF Next, Step

LEMMA TasksKeep == Spec => []TaskInv
  BY TaskInit, TaskNext, PTL DEF Spec

\* What a branch and bound that stopped has: feasible sets, and a proof or a gap.
LEMMA SearchEnds ==
  ASSUME inst \in Instances, SearchInv, status \in {"optimal", "timeout"}
  PROVE  /\ Chosen(best.selected) /\ best.value = Value(inst, best.selected)
         /\ best.value \in Nat /\ best.value <= Cardinality(Universe)
         /\ Cardinality(Universe) \in Nat
         /\ status = "optimal" => IsOptimum(inst, best.value)
         /\ status = "timeout" => best.value < Cardinality(Universe)
<1>1. /\ best.selected \subseteq Indices(inst) /\ BestIsFeasible /\ GapLeft
      /\ OptimalIsOptimum
  BY InvOptimum DEF SearchInv, Inv, SearchTypeOK, Answer
<1>2. Chosen(best.selected) /\ best.value = Value(inst, best.selected)
  BY <1>1 DEF BestIsFeasible, Chosen
<1>3. /\ best.value \in Nat /\ best.value <= Cardinality(Universe)
      /\ Cardinality(Universe) \in Nat
  BY <1>1, <1>2, Chosens
<1> QED
  BY <1>1, <1>2, <1>3 DEF GapLeft, OptimalIsOptimum

\* The same of brute_force.
LEMMA BruteEnds ==
  ASSUME inst \in Instances, BruteInv, status \in {"optimal", "timeout"}
  PROVE  /\ Chosen(best.selected) /\ best.value = Value(inst, best.selected)
         /\ best.value \in Nat /\ best.value <= Cardinality(Universe)
         /\ Cardinality(Universe) \in Nat
         /\ status = "optimal" => IsOptimum(inst, best.value)
         /\ status = "timeout" => best.value < Cardinality(Universe)
<1>1. /\ best.selected \in Selections(inst) /\ GapLeft
      /\ best = [selected |-> best.selected, value |-> Value(inst, best.selected)]
      /\ status = "optimal" => IsOptimum(inst, best.value)
  BY DEF BruteInv
<1>2. Chosen(best.selected) /\ best.value = Value(inst, best.selected)
  BY <1>1, SelectionsChosen
<1>3. /\ best.value \in Nat /\ best.value <= Cardinality(Universe)
      /\ Cardinality(Universe) \in Nat
  BY <1>2, Chosens DEF Chosen
<1> QED
  BY <1>1, <1>2, <1>3 DEF GapLeft

\* A result with a bound is refused by nothing if it is optimal with its value as
\* the bound, or has a gap below it.
LEMMA ProofAccepted ==
  ASSUME inst \in Instances, NEW S, Chosen(S), Exact, NEW end, NEW limit,
         \/ end = "optimal" /\ limit = Value(inst, S)
         \/ end = "timeout" /\ limit \in Nat /\ limit > Value(inst, S)
  PROVE  ~Refused(Finished(S, end, limit))
<1> DEFINE r == Finished(S, end, limit)
<1>1. /\ r.selected = S /\ r.value = Value(inst, S) /\ r.status = end /\ r.bound = limit
  BY DEF Finished
<1>2. /\ Cardinality(S) \in Nat /\ inst.k \in Nat /\ Cardinality(S) <= inst.k
      /\ Value(inst, S) \in Nat
  BY Chosens DEF Chosen
<1> HIDE DEF r
<1>3. ~SolutionRefused(r)
  BY <1>1, <1>2 DEF SolutionRefused
<1> QED
  BY <1>1, <1>2, <1>3 DEF Refused, r

\* A result without a bound is refused by nothing unless it claims a proof.
LEMMA NoProofAccepted ==
  ASSUME inst \in Instances, NEW S, Chosen(S), NEW end,
         \/ ~Exact /\ end = "feasible"
         \/ end = "timeout"
         \/ end = "error" /\ S = {}
  PROVE  ~Refused(Finished(S, end, None))
<1> DEFINE r == Finished(S, end, None)
<1>1. r.selected = S /\ r.status = end /\ r.bound = None
  BY DEF Finished
<1>2. Cardinality(S) \in Nat /\ inst.k \in Nat /\ Cardinality(S) <= inst.k
  BY Chosens DEF Chosen
<1> HIDE DEF r
<1>3. ~SolutionRefused(r)
  BY <1>1 DEF SolutionRefused
<1> QED
  BY <1>1, <1>2, <1>3 DEF Refused, r

LEMMA InvAccepted == TaskInv => ResultsAccepted
<1> SUFFICES ASSUME TaskInv, Over
             PROVE  /\ ~Refused(Result)
                    /\ algorithm # "lazy_greedy" => Result.value = best.value
  BY DEF ResultsAccepted
<1>1. inst \in Instances /\ Chosen(selected)
  BY DEF TaskInv
<1>2. CASE algorithm = "lazy_greedy"
  <2>1. Result = Finished(selected, "feasible", None) /\ ~Exact
    BY <1>2 DEF Result, LazyResult, Exact
  <2> QED
    BY <1>1, <1>2, <2>1, NoProofAccepted
<1>3. CASE algorithm = "branch_and_bound"
  <2>1. /\ Result = Finished(best.selected, status, Bound) /\ Exact
        /\ SearchInv /\ status \in {"optimal", "timeout"}
    BY <1>3 DEF Result, SearchResult, Exact, Over, TaskInv, SearchInv, Inv, SearchTypeOK
  <2>2. /\ Chosen(best.selected) /\ best.value = Value(inst, best.selected)
        /\ Cardinality(Universe) \in Nat
        /\ status = "timeout" => best.value < Cardinality(Universe)
        /\ best.value \in Nat
    BY <1>1, <2>1, SearchEnds
  <2>3. \/ status = "optimal" /\ Bound = Value(inst, best.selected)
        \/ status = "timeout" /\ Bound \in Nat /\ Bound > Value(inst, best.selected)
    BY <2>1, <2>2 DEF Bound
  <2>4. ~Refused(Finished(best.selected, status, Bound))
    BY <1>1, <2>1, <2>2, <2>3, ProofAccepted
  <2> QED
    BY <2>1, <2>2, <2>4 DEF Finished
<1>4. CASE algorithm = "brute_force"
  <2>1. /\ Result = Finished(best.selected, status, Base!EnumerationBound) /\ Exact
        /\ BruteInv /\ status \in {"optimal", "timeout"}
    BY <1>4 DEF Result, Exact, Over, TaskInv, BruteInv
  <2>2. /\ Chosen(best.selected) /\ best.value = Value(inst, best.selected)
        /\ Cardinality(Universe) \in Nat
        /\ status = "timeout" => best.value < Cardinality(Universe)
        /\ best.value \in Nat
    BY <1>1, <2>1, BruteEnds
  <2>3. \/ status = "optimal" /\ Base!EnumerationBound = Value(inst, best.selected)
        \/ /\ status = "timeout" /\ Base!EnumerationBound \in Nat
           /\ Base!EnumerationBound > Value(inst, best.selected)
    BY <2>1, <2>2, BaseNames DEF Base!EnumerationBound
  <2>4. ~Refused(Finished(best.selected, status, Base!EnumerationBound))
    BY <1>1, <2>1, <2>2, <2>3, ProofAccepted
  <2> QED
    BY <2>1, <2>2, <2>4 DEF Finished
<1>5. CASE algorithm = "local_search"
  <2>1. /\ Result = Finished(best.selected, status, None) /\ ~Exact
        /\ LocalInv /\ status \in {"feasible", "timeout"}
    BY <1>5 DEF Result, HeuristicResult, Exact, Over, TaskInv, LocalInv
  <2>2. /\ best.selected \in Selections(inst)
        /\ best = [selected |-> best.selected, value |-> Value(inst, best.selected)]
    BY <2>1 DEF LocalInv
  <2>3. Chosen(best.selected) /\ best.value = Value(inst, best.selected)
    BY <1>1, <2>2, SelectionsChosen
  <2>4. ~Refused(Finished(best.selected, status, None))
    BY <1>1, <2>1, <2>3, NoProofAccepted
  <2> QED
    BY <2>1, <2>3, <2>4 DEF Finished
<1>6. CASE algorithm = "randomized_greedy"
  <2>1. /\ Result = Finished(best.selected, status, None) /\ ~Exact
        /\ RandomInv /\ status = "feasible"
    BY <1>6 DEF Result, HeuristicResult, Exact, Over, TaskInv, RandomInv
  <2>2. Chosen(best.selected) /\ best.value = Value(inst, best.selected)
    BY <2>1 DEF RandomInv
  <2>3. ~Refused(Finished(best.selected, status, None))
    BY <1>1, <2>1, <2>2, NoProofAccepted
  <2> QED
    BY <2>1, <2>2, <2>3 DEF Finished
<1>7. CASE algorithm = "cp_sat_oracle"
  <2>1. /\ Result = Finished(best.selected, status, bound) /\ Exact
        /\ OracleInv /\ status \in {"optimal", "timeout", "error"}
    BY <1>7 DEF Result, OracleResult, Exact, Over, TaskInv, OracleInv
  <2>2. Chosen(best.selected) /\ best.value = Value(inst, best.selected)
    BY <2>1 DEF OracleInv
  <2>3. CASE status = "error"
    BY <1>1, <2>1, <2>2, <2>3, NoProofAccepted DEF OracleInv, Finished
  <2>4. CASE status \in {"optimal", "timeout"}
    <3>1. ~Refused(Finished(best.selected, status, bound))
      BY <1>1, <2>1, <2>2, <2>4, ProofAccepted DEF OracleInv
    <3> QED
      BY <2>1, <2>2, <3>1 DEF Finished
  <2> QED
    BY <2>1, <2>3, <2>4
<1> QED
  BY <1>2, <1>3, <1>4, <1>5, <1>6, <1>7 DEF TaskInv

LEMMA InvBounds == TaskInv => BoundsHold
<1> SUFFICES ASSUME TaskInv, Over, Result.bound # None, NEW S \in Selections(inst)
             PROVE  Value(inst, S) <= Result.bound
  BY DEF BoundsHold
<1>1. inst \in Instances
  BY DEF TaskInv
<1>2. Value(inst, S) <= Cardinality(Universe)
  BY <1>1, SelectionsChosen, Chosens
<1>3. CASE algorithm = "lazy_greedy"
  BY <1>3 DEF Result, LazyResult, Finished
<1>4. CASE algorithm \in {"local_search", "randomized_greedy"}
  BY <1>4 DEF Result, HeuristicResult, Finished
<1>5. CASE algorithm = "branch_and_bound"
  <2>1. Result.bound = Bound /\ SearchInv /\ status \in {"optimal", "timeout"}
    BY <1>5 DEF Result, SearchResult, Finished, Over, TaskInv, SearchInv, Inv, SearchTypeOK
  <2> QED
    BY <1>1, <1>2, <2>1, SearchEnds DEF Bound, IsOptimum
<1>6. CASE algorithm = "brute_force"
  <2>1. Result.bound = Base!EnumerationBound /\ BruteInv /\ status \in {"optimal", "timeout"}
    BY <1>6 DEF Result, Finished, Over, TaskInv, BruteInv
  <2> QED
    BY <1>1, <1>2, <2>1, BruteEnds, BaseNames DEF Base!EnumerationBound, IsOptimum
<1>7. CASE algorithm = "cp_sat_oracle"
  <2>1. Result.bound = bound /\ OracleInv /\ status \in {"optimal", "timeout", "error"}
    BY <1>7 DEF Result, OracleResult, Finished, Over, TaskInv, OracleInv
  <2> QED
    BY <2>1 DEF OracleInv, IsOptimum
<1> QED
  BY <1>3, <1>4, <1>5, <1>6, <1>7 DEF TaskInv

LEMMA InvNothingLost == TaskInv => NothingLost
<1> SUFFICES ASSUME TaskInv, algorithm = "local_search", Local!Over
             PROVE  /\ best.selected \in Selections(inst)
                    /\ Value(inst, best.selected) = high
  BY LocalNames DEF NothingLost, Local!NothingLost
<1>1. LocalInv /\ status \in {"feasible", "timeout"}
  BY DEF TaskInv, Local!Over
<1> QED
  BY <1>1 DEF LocalInv

LEMMA InvOptima == TaskInv => OptimalIsOptimum
<1> SUFFICES ASSUME TaskInv, status = "optimal"
             PROVE  IsOptimum(inst, best.value)
  BY DEF OptimalIsOptimum
<1>1. algorithm \notin {"lazy_greedy", "local_search", "randomized_greedy"}
  BY DEF TaskInv, LocalInv, RandomInv
<1> QED
  BY <1>1, InvOptimum DEF TaskInv, SearchInv, BruteInv, OracleInv, OptimalIsOptimum

-----------------------------------------------------------------------------
\* Neither AlgorithmSpec.run nor Solution ever refuses the result of one of the
\* algorithms, on any instance, with any options and limits, whenever its
\* deadline passes and whatever the external solver answers; and the value that
\* a search kept is the coverage of the sets it kept.
THEOREM EveryResultIsAccepted == Spec => []ResultsAccepted
  BY TasksKeep, InvAccepted, PTL

\* best_bound of a result is never below the coverage of a selection of k sets,
\* for every algorithm that gives one.
LEMMA EveryBoundHolds == Spec => []BoundsHold
  BY TasksKeep, InvBounds, PTL

\* local_search and multi_start_local_search return a selection of k sets as good
\* as the best that they held, for all limits and whenever the deadline passes.
THEOREM BestIsNeverLost == Spec => []NothingLost
  BY TasksKeep, InvNothingLost, PTL

\* A result with the status optimal, of whatever algorithm, is the optimum.
LEMMA EveryOptimumIsTrue == Spec => []OptimalIsOptimum
  BY TasksKeep, InvOptima, PTL

\* What a result claims of the optimum, by its status or its bound, is true of
\* every algorithm, instance, option, limit and deadline.
THEOREM EveryClaimHolds == Spec => []ClaimsHold
<1>1. OptimalIsOptimum /\ BoundsHold => ClaimsHold
  BY DEF ClaimsHold
<1> QED
  BY EveryBoundHolds, EveryOptimumIsTrue, <1>1, PTL

\* Whatever algorithm runs, the selection it starts from, or makes, is greedy's.
THEOREM EveryTaskStartsGreedy == Spec => ImplementsGreedy
  BY TaskInit, TaskNext, PTL DEF Spec, ImplementsGreedy, GreedySpec

=============================================================================
