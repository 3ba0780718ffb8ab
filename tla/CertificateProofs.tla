------------------------- MODULE CertificateProofs --------------------------
(***************************************************************************)
(* Proof that the optimum that comes with a constructed instance is one,   *)
(* and that greedy falls for the traps by what their severity says, for    *)
(* every configuration and whatever is drawn: of its parameters a family   *)
(* needs no more than what its generator checks, of the draws nothing.     *)
(***************************************************************************)
EXTENDS Audit, FiniteSetTheorems, SequenceTheorems, TLAPS

-----------------------------------------------------------------------------
(***************************************************************************)
(* Finite sets.                                                            *)
(***************************************************************************)

\* Sets of parts of a finite set have a least one.
LEMMA LeastPart ==
  ASSUME NEW U, IsFiniteSet(U), NEW T, T \subseteq SUBSET U, T # {}
  PROVE  \E x \in T : \A y \in T : ~(y \subseteq x /\ y # x)
<1> DEFINE R == StrictSubsetOrdering(U)
<1>1. FiniteSubsetsOf(U) = SUBSET U
  BY FS_FiniteSubsetsOfFinite
<1>2. IsWellFoundedOn(R, SUBSET U)
  BY <1>1, FS_StrictSubsetOrderingWellFounded
<1>3. PICK x \in T : \A y \in T : ~(<<y, x>> \in R)
  <2> HIDE DEF R
  <2> QED BY <1>2, WFMin
<1>4. \A y \in T : y \subseteq x /\ y # x => <<y, x>> \in R
  BY DEF StrictSubsetOrdering
<1> HIDE DEF R
<1>5. \A y \in T : ~(y \subseteq x /\ y # x)
  BY <1>3, <1>4
<1> QED
  BY <1>5

\* A set of numbers up to n that is not empty has a greatest one.
LEMMA GreatestIndex ==
  ASSUME NEW n \in Int, NEW S, S \subseteq 1 .. n, S # {}
  PROVE  \E m \in S : \A j \in S : j <= m
<1> DEFINE T == {i .. n : i \in S}
<1>1. IsFiniteSet(1 .. n)
  BY FS_Interval
<1>2. T \subseteq SUBSET (1 .. n) /\ T # {}
  <2>1. ASSUME NEW i \in S PROVE i .. n \subseteq 1 .. n
    OBVIOUS
  <2> QED
    BY <2>1
<1>3. PICK x \in T : \A y \in T : ~(y \subseteq x /\ y # x)
  <2> DEFINE U == 1 .. n
  <2>1. IsFiniteSet(U) /\ T \subseteq SUBSET U /\ T # {}
    BY <1>1, <1>2
  <2> HIDE DEF T, U
  <2> QED BY <2>1, LeastPart
<1>4. PICK m \in S : x = m .. n
  BY <1>3
<1>5. ASSUME NEW j \in S, ~(j <= m) PROVE FALSE
  <2>1. m \in Int /\ j \in Int /\ m < j /\ m <= n
    BY <1>5
  <2>2. j .. n \subseteq m .. n /\ m \in m .. n /\ m \notin j .. n
    BY <2>1
  <2>3. j .. n \in T
    OBVIOUS
  <2> QED
    BY <1>3, <1>4, <2>2, <2>3
<1> QED
  BY <1>5

\* What a function makes of a finite set is not larger.
LEMMA ImageSize ==
  ASSUME NEW S, IsFiniteSet(S), NEW f, DOMAIN f = S, f = [x \in S |-> f[x]]
  PROVE  LET T == {f[x] : x \in S}
         IN  IsFiniteSet(T) /\ Cardinality(T) <= Cardinality(S) /\ Cardinality(T) \in Nat
<1> DEFINE T == {f[x] : x \in S}
<1>1. f \in Surjection(S, T)
  <2>1. f \in [S -> T]
    OBVIOUS
  <2>2. \A y \in T : \E x \in S : f[x] = y
    OBVIOUS
  <2> HIDE DEF T
  <2> QED BY <2>1, <2>2 DEF Surjection
<1> HIDE DEF T
<1>2. IsFiniteSet(T) /\ Cardinality(T) <= Cardinality(S)
  BY <1>1, FS_Surjection
<1>3. Cardinality(T) \in Nat
  BY <1>2, FS_CardinalityType
<1> QED
  BY <1>2, <1>3 DEF T

\* Sets of neighbours, and sets that have nothing in common.
LEMMA Neighbours ==
  ASSUME NEW a \in Int, NEW c \in Int, a <= c + 1, NEW S, S = a .. c
  PROVE  IsFiniteSet(S) /\ Cardinality(S) = c - a + 1
BY FS_Interval

LEMMA DisjointSizes ==
  ASSUME NEW S, IsFiniteSet(S), NEW T, IsFiniteSet(T), S \cap T = {}
  PROVE  /\ IsFiniteSet(S \cup T)
         /\ Cardinality(S \cup T) = Cardinality(S) + Cardinality(T)
<1>1. Cardinality(S \cap T) = 0
  BY FS_EmptySet
<1>2. /\ IsFiniteSet(S \cup T)
      /\ Cardinality(S \cup T) = Cardinality(S) + Cardinality(T) - Cardinality(S \cap T)
  BY FS_Union
<1>3. Cardinality(S) \in Nat /\ Cardinality(T) \in Nat
  BY FS_CardinalityType
<1> QED
  BY <1>1, <1>2, <1>3

\* What an instance covers is at most its universe.
LEMMA CoveredInUniverse ==
  ASSUME NEW x, NEW n \in Nat, NEW S,
         \A i \in S : x.sets[i] \subseteq 0 .. n - 1
  PROVE  /\ Union(x, S) \subseteq 0 .. n - 1 /\ IsFiniteSet(Union(x, S))
         /\ Value(x, S) \in 0 .. n
<1>1. Union(x, S) \subseteq 0 .. n - 1
  BY DEF Union
<1>2. IsFiniteSet(0 .. n - 1) /\ Cardinality(0 .. n - 1) = n
  BY FS_Interval
<1>3. IsFiniteSet(Union(x, S)) /\ Cardinality(Union(x, S)) <= n
  BY <1>1, <1>2, FS_Subset
<1>4. Cardinality(Union(x, S)) \in Nat
  BY <1>3, FS_CardinalityType
<1> QED
  BY <1>1, <1>3, <1>4 DEF Value

\* Two sets cover what is in either of them.
LEMMA CoveredByTwo ==
  ASSUME NEW x, NEW i, NEW j
  PROVE  Union(x, {i, j}) = x.sets[i] \cup x.sets[j]
BY DEF Union

LEMMA TwoElements ==
  ASSUME NEW i, NEW j, i # j
  PROVE  Cardinality({i, j}) = 2
<1>1. IsFiniteSet({i}) /\ Cardinality({i}) = 1
  BY FS_Singleton
<1>2. Cardinality({i} \cup {j}) = 2
  BY <1>1, FS_AddElement
<1>3. {i, j} = {i} \cup {j}
  OBVIOUS
<1> QED
  BY <1>2, <1>3

-----------------------------------------------------------------------------
(***************************************************************************)
(* Traps.                                                                  *)
(***************************************************************************)

\* What both generators check of a trap.
TrapSizes(p) ==
    /\ IntegerFrom(4, p.block_size)
    /\ p.trap_count \in MinimumTrap(p) .. p.block_size

\* An instance whose first sets are a trap and the blocks, and whose others
\* neither are larger than the trap nor add more to it than a block does.
TrapShape(x, p) ==
    /\ TrapSizes(p) /\ x.k = 2
    /\ \E m \in Nat : m >= 3 /\ Indices(x) = 1 .. m
    /\ x.sets[1] = FirstHalves(p, p.trap_count)
    /\ x.sets[2] = LeftBlock(p) /\ x.sets[3] = RightBlock(p)
    /\ \A i \in Indices(x) :
        /\ x.sets[i] \subseteq 0 .. 2 * p.block_size - 1
        /\ Cardinality(x.sets[i]) <= 2 * p.trap_count
        /\ Value(x, {1, i}) <= p.block_size + p.trap_count

LEMMA TrapNumbers ==
  ASSUME NEW p, TrapSizes(p)
  PROVE  /\ p.block_size \in Nat /\ p.block_size >= 4
         /\ p.trap_count \in Nat /\ p.trap_count <= p.block_size
         /\ p.block_size < 2 * p.trap_count
         /\ MinimumTrap(p) \in Nat /\ MinimumTrap(p) <= p.trap_count
         /\ Residual(p) = p.block_size - p.trap_count /\ Residual(p) \in Nat
BY DEF TrapSizes, IntegerFrom, MinimumTrap, Residual

\* How much the trap and the blocks cover, alone and together.
LEMMA TrapAndBlocksCover ==
  ASSUME NEW p, TrapSizes(p), NEW trap, trap = FirstHalves(p, p.trap_count)
  PROVE  /\ IsFiniteSet(trap) /\ Cardinality(trap) = 2 * p.trap_count
         /\ trap \subseteq 0 .. 2 * p.block_size - 1
         /\ Cardinality(LeftBlock(p)) = p.block_size
         /\ Cardinality(RightBlock(p)) = p.block_size
         /\ Cardinality(trap \cup LeftBlock(p)) = p.block_size + p.trap_count
         /\ Cardinality(trap \cup RightBlock(p)) = p.block_size + p.trap_count
         /\ LeftBlock(p) \cup RightBlock(p) = 0 .. 2 * p.block_size - 1
<1> DEFINE b == p.block_size
           t == p.trap_count
           left == 0 .. t - 1
           right == b .. b + t - 1
           block == b .. 2 * b - 1
<1>1. b \in Nat /\ b >= 4 /\ t \in Nat /\ t <= b /\ b < 2 * t
  BY TrapNumbers
<1> HIDE DEF b, t
<1>2. trap = left \cup right
  BY DEF FirstHalves, b, t
<1>3. LeftBlock(p) = 0 .. b - 1 /\ RightBlock(p) = block
  BY DEF LeftBlock, RightBlock, b
<1>4. /\ IsFiniteSet(left) /\ Cardinality(left) = t
      /\ IsFiniteSet(right) /\ Cardinality(right) = t
  <2>1. IsFiniteSet(left) /\ Cardinality(left) = (t - 1) - 0 + 1
    BY <1>1, Neighbours
  <2>2. IsFiniteSet(right) /\ Cardinality(right) = (b + t - 1) - b + 1
    BY <1>1, Neighbours
  <2> QED
    BY <1>1, <2>1, <2>2
<1>5. /\ Cardinality(LeftBlock(p)) = b
      /\ IsFiniteSet(block) /\ Cardinality(block) = b
  <2>1. Cardinality(LeftBlock(p)) = (b - 1) - 0 + 1
    BY <1>1, <1>3, Neighbours
  <2>2. IsFiniteSet(block) /\ Cardinality(block) = (2 * b - 1) - b + 1
    BY <1>1, Neighbours
  <2> QED
    BY <1>1, <2>1, <2>2
<1>6. IsFiniteSet(trap) /\ Cardinality(trap) = 2 * t
  <2>1. left \cap right = {}
    BY <1>1
  <2>2. IsFiniteSet(left \cup right) /\ Cardinality(left \cup right) = t + t
    <3> HIDE DEF left, right
    <3> QED BY <1>4, <2>1, DisjointSizes
  <2> QED
    BY <1>1, <1>2, <2>2
<1>7. Cardinality(trap \cup LeftBlock(p)) = b + t
  <2>1. trap \cup LeftBlock(p) = 0 .. b + t - 1
    BY <1>1, <1>2, <1>3
  <2>2. Cardinality(0 .. b + t - 1) = (b + t - 1) - 0 + 1
    BY <1>1, Neighbours
  <2>3. Cardinality(trap \cup LeftBlock(p)) = (b + t - 1) - 0 + 1
    BY <2>1, <2>2, Zenon
  <2> QED
    BY <1>1, <2>3
<1>8. Cardinality(trap \cup RightBlock(p)) = b + t
  <2>1. trap \cup RightBlock(p) = left \cup block
    BY <1>1, <1>2, <1>3
  <2>2. left \cap block = {}
    BY <1>1
  <2>3. Cardinality(left \cup block) = t + b
    <3> HIDE DEF left, block
    <3> QED BY <1>4, <1>5, <2>2, DisjointSizes
  <2>4. t + b = b + t
    BY <1>1
  <2> HIDE DEF left, block
  <2> QED
    BY <2>1, <2>3, <2>4
<1>9. /\ trap \subseteq 0 .. 2 * b - 1
      /\ LeftBlock(p) \cup RightBlock(p) = 0 .. 2 * b - 1
  BY <1>1, <1>2, <1>3
<1> QED
  BY <1>3, <1>5, <1>6, <1>7, <1>8, <1>9 DEF b, t

\* The blocks are an optimum of a trap.
LEMMA BlocksAreOptimum ==
  ASSUME NEW x, NEW p, TrapShape(x, p)
  PROVE  IsOptimum(x, 2 * p.block_size)
<1> DEFINE b == p.block_size
<1>1. PICK m \in Nat : m >= 3 /\ Indices(x) = 1 .. m
  BY DEF TrapShape
<1>2. b \in Nat /\ TrapSizes(p) /\ x.k = 2
  BY TrapNumbers DEF TrapShape
<1>3. \A i \in Indices(x) : x.sets[i] \subseteq 0 .. 2 * b - 1
  BY DEF TrapShape
<1> HIDE DEF b
<1>4. {2, 3} \in Selections(x)
  <2>1. Cardinality({2, 3}) = 2
    <3>1. 2 # 3
      OBVIOUS
    <3> QED
      BY <3>1, TwoElements, Zenon
  <2>2. {2, 3} \subseteq Indices(x)
    BY <1>1
  <2> QED
    BY <1>2, <2>1, <2>2 DEF Selections
<1>5. Value(x, {2, 3}) = 2 * b
  <2>1. Union(x, {2, 3}) = x.sets[2] \cup x.sets[3]
    BY CoveredByTwo, Zenon
  <2>2. x.sets[2] \cup x.sets[3] = 0 .. 2 * b - 1
    BY <1>2, TrapAndBlocksCover DEF TrapShape, b
  <2>3. Cardinality(0 .. 2 * b - 1) = 2 * b
    BY <1>2, Neighbours
  <2> QED
    BY <2>1, <2>2, <2>3 DEF Value
<1>6. ASSUME NEW S \in Selections(x) PROVE Value(x, S) <= 2 * b
  <2>1. \A i \in S : x.sets[i] \subseteq 0 .. 2 * b - 1
    BY <1>3 DEF Selections
  <2>2. 2 * b \in Nat
    BY <1>2
  <2>3. Value(x, S) \in 0 .. 2 * b
    BY <2>1, <2>2, CoveredInUniverse
  <2> QED
    BY <2>2, <2>3
<1> QED
  BY <1>4, <1>5, <1>6 DEF IsOptimum, b

\* Greedy begins with the trap, and then covers a block and the trap.
LEMMA GreedyIsCaught ==
  ASSUME NEW x, NEW p, TrapShape(x, p)
  PROVE  /\ FirstPick(x) = 1
         /\ TwoPicks(x) = p.block_size + p.trap_count
<1> DEFINE b == p.block_size
           t == p.trap_count
<1>1. PICK m \in Nat : m >= 3 /\ Indices(x) = 1 .. m
  BY DEF TrapShape
<1>2. TrapSizes(p) /\ b \in Nat /\ t \in Nat
  BY TrapNumbers DEF TrapShape
<1>3. FirstPick(x) = 1
  <2>1. 1 \in Largest(x)
    <3>1. Cardinality(x.sets[1]) = 2 * t
      BY <1>2, TrapAndBlocksCover DEF TrapShape
    <3>2. 1 \in Indices(x)
      BY <1>1
    <3> QED
      BY <3>1, <3>2 DEF TrapShape, Largest
  <2>2. Largest(x) \subseteq 1 .. m
    BY <1>1 DEF Largest
  <2>3. \A j \in Largest(x) : 1 <= j
    BY <2>2
  <2> DEFINE Least(i) == \A j \in Largest(x) : i <= j
  <2>4. \A i \in Largest(x) : Least(i) => i = 1
    BY <2>1, <2>2
  <2>5. 1 \in Largest(x) /\ Least(1)
    BY <2>1, <2>3
  <2>6. FirstPick(x) = CHOOSE i \in Largest(x) : Least(i)
    BY DEF FirstPick
  <2> HIDE DEF Least
  <2> QED
    BY <2>4, <2>5, <2>6
<1>4. Value(x, {1, 2}) = b + t
  <2>1. Union(x, {1, 2}) = x.sets[1] \cup LeftBlock(p)
    <3>1. Union(x, {1, 2}) = x.sets[1] \cup x.sets[2]
      BY CoveredByTwo, Zenon
    <3> QED
      BY <3>1 DEF TrapShape
  <2>2. Cardinality(x.sets[1] \cup LeftBlock(p)) = b + t
    BY <1>2, TrapAndBlocksCover DEF TrapShape
  <2> QED
    BY <2>1, <2>2 DEF Value
<1>5. \A i \in Indices(x) : Value(x, {1, i}) \in Nat /\ Value(x, {1, i}) <= b + t
  <2> SUFFICES ASSUME NEW i \in Indices(x)
               PROVE  Value(x, {1, i}) \in Nat /\ Value(x, {1, i}) <= b + t
    OBVIOUS
  <2>1. \A j \in {1, i} : x.sets[j] \subseteq 0 .. 2 * b - 1
    <3>1. {1, i} \subseteq Indices(x)
      BY <1>1
    <3> QED
      BY <3>1 DEF TrapShape
  <2>2. 2 * b \in Nat
    BY <1>2
  <2>3. Value(x, {1, i}) \in Nat
    <3> DEFINE n == 2 * b
    <3>1. Value(x, {1, i}) \in 0 .. n
      <4>1. n \in Nat /\ \A j \in {1, i} : x.sets[j] \subseteq 0 .. n - 1
        BY <2>1, <2>2
      <4> HIDE DEF n
      <4> QED BY <4>1, CoveredInUniverse
    <3> QED
      BY <3>1
  <2> QED
    BY <2>3 DEF TrapShape
<1>6. TwoPicks(x) = b + t
  <2> DEFINE Best(j) == \A i \in Indices(x) : Value(x, {1, i}) <= Value(x, {1, j})
             second == CHOOSE j \in Indices(x) : Best(j)
  <2>1. 2 \in Indices(x) /\ Best(2)
    BY <1>1, <1>4, <1>5
  <2>2. TwoPicks(x) = Value(x, {1, second})
    BY <1>3 DEF TwoPicks
  <2>3. second \in Indices(x) /\ Best(second)
    <3> HIDE DEF Best
    <3> QED BY <2>1
  <2> HIDE DEF second
  <2>4. Value(x, {1, second}) = b + t
    <3>1. Value(x, {1, 2}) <= Value(x, {1, second})
      BY <2>1, <2>3
    <3> HIDE DEF Best
    <3> QED BY <1>2, <1>4, <1>5, <2>3, <3>1
  <2> QED
    BY <2>2, <2>4
<1> QED
  BY <1>3, <1>6

\* The first n of a ranking that are in S are in S, and no more than n.
LEMMA FirstInBounded ==
  ASSUME NEW p, TrapSizes(p), NEW ranking, NEW S, NEW n \in Nat
  PROVE  LET F == FirstIn(p, ranking, S, n)
         IN  F \subseteq S /\ IsFiniteSet(F) /\ Cardinality(F) \in 0 .. n
<1> DEFINE Q(i) == {j \in 1 .. i : ranking[j] \in S}
           P == {i \in 1 .. 2 * p.block_size : ranking[i] \in S /\ Cardinality(Q(i)) <= n}
           f == [i \in P |-> ranking[i]]
           F == {f[i] : i \in P}
<1>1. FirstIn(p, ranking, S, n) = F
  BY DEF FirstIn
<1>2. F \subseteq S
  OBVIOUS
<1>3. 2 * p.block_size \in Nat
  BY TrapNumbers
<1>4. IsFiniteSet(P) /\ Cardinality(P) \in 0 .. n
  <2>1. CASE P = {}
    <3> HIDE DEF P
    <3> QED BY <2>1, FS_EmptySet
  <2>2. CASE P # {}
    <3>1. PICK m \in P : \A i \in P : i <= m
      <4>1. P \subseteq 1 .. 2 * p.block_size /\ 2 * p.block_size \in Int
        BY <1>3
      <4> HIDE DEF P
      <4> QED BY <2>2, <4>1, GreatestIndex
    <3>2. P \subseteq Q(m) /\ Cardinality(Q(m)) <= n /\ m \in Nat
      BY <1>3, <3>1
    <3>3. IsFiniteSet(Q(m))
      <4>1. IsFiniteSet(1 .. m)
        BY <3>2, FS_Interval
      <4>2. Q(m) \in SUBSET (1 .. m)
        OBVIOUS
      <4> QED
        BY <4>1, <4>2, FS_Subset
    <3> HIDE DEF P, Q
    <3>4. IsFiniteSet(P) /\ Cardinality(P) <= Cardinality(Q(m))
      BY <3>2, <3>3, FS_Subset
    <3>5. Cardinality(P) \in Nat /\ Cardinality(Q(m)) \in Nat
      BY <3>3, <3>4, FS_CardinalityType
    <3> QED
      BY <3>2, <3>4, <3>5
  <2> QED
    BY <2>1, <2>2
<1>5. IsFiniteSet(F) /\ Cardinality(F) <= Cardinality(P) /\ Cardinality(F) \in Nat
  <2>1. DOMAIN f = P /\ f = [i \in P |-> f[i]]
    OBVIOUS
  <2> HIDE DEF P, f
  <2> QED BY <1>4, <2>1, ImageSize
<1> HIDE DEF F, P
<1>6. Cardinality(F) \in 0 .. n
  BY <1>4, <1>5
<1> QED
  BY <1>1, <1>2, <1>5, <1>6

\* A distractor of version 2 is not larger than the trap, and adds less to it
\* than a block does.
LEMMA DistractorAddsLittle ==
  ASSUME NEW p, TrapSizes(p), NEW ranking, NEW trap, trap = FirstHalves(p, p.trap_count),
         Distractor(p, ranking) \subseteq 0 .. 2 * p.block_size - 1
  PROVE  /\ Cardinality(Distractor(p, ranking)) <= 2 * p.trap_count
         /\ Cardinality(trap \cup Distractor(p, ranking)) <= p.block_size + p.trap_count
<1> DEFINE b == p.block_size
           t == p.trap_count
           D == Distractor(p, ranking)
           whole == 0 .. 2 * b - 1
<1>1. b \in Nat /\ t \in Nat /\ t <= b /\ b < 2 * t /\ Residual(p) = b - t
  BY TrapNumbers
<1>2. /\ IsFiniteSet(trap) /\ Cardinality(trap) = 2 * t /\ trap \subseteq whole
  BY TrapAndBlocksCover
<1>3. CASE Residual(p) = 0
  <2>1. IsFiniteSet(whole) /\ Cardinality(whole) = 2 * b
    <3> DEFINE last == 2 * b - 1
    <3>1. last \in Int /\ 0 <= last + 1 /\ last - 0 + 1 = 2 * b
      BY <1>1
    <3>2. whole = 0 .. last
      OBVIOUS
    <3> HIDE DEF last, whole
    <3>3. IsFiniteSet(whole) /\ Cardinality(whole) = last - 0 + 1
      BY <3>1, <3>2, Neighbours
    <3> QED
      BY <3>1, <3>3
  <2>2. D \subseteq whole /\ trap \cup D \subseteq whole
    BY <1>2
  <2> HIDE DEF whole, D, b, t
  <2>3. Cardinality(D) <= 2 * b /\ Cardinality(trap \cup D) <= 2 * b
    BY <2>1, <2>2, FS_Subset
  <2>4. b = t
    BY <1>1, <1>3
  <2>5. Cardinality(D) <= 2 * t /\ Cardinality(trap \cup D) <= b + t
    BY <1>1, <2>3, <2>4
  <2> QED
    BY <2>5 DEF D, b, t
<1>4. CASE Residual(p) # 0
  <2> DEFINE outside == (0 .. 2 * p.block_size - 1) \ FirstHalves(p, p.trap_count)
             new == FirstIn(p, ranking, outside, Residual(p) - 1)
             old == FirstIn(p, ranking, trap, p.block_size - Cardinality(new))
  <2>1. D = new \cup old
    BY <1>4 DEF Distractor
  <2>2. IsFiniteSet(new) /\ Cardinality(new) \in 0 .. b - t - 1
    <3>1. Residual(p) - 1 \in Nat
      BY <1>1, <1>4
    <3> HIDE DEF outside
    <3>2. IsFiniteSet(new) /\ Cardinality(new) \in 0 .. Residual(p) - 1
      BY <3>1, FirstInBounded
    <3> QED
      BY <1>1, <3>2
  <2> HIDE DEF new
  <2>3. old \subseteq trap /\ IsFiniteSet(old) /\ Cardinality(old) \in 0 .. b - Cardinality(new)
    <3>1. p.block_size - Cardinality(new) \in Nat
      BY <1>1, <2>2
    <3> QED
      BY <3>1, FirstInBounded
  <2> HIDE DEF old, D
  <2>4. Cardinality(D) <= Cardinality(new) + Cardinality(old)
    <3>1. Cardinality(D) = Cardinality(new) + Cardinality(old) - Cardinality(new \cap old)
      BY <2>1, <2>2, <2>3, FS_Union
    <3>2. Cardinality(new \cap old) \in Nat
      BY <2>2, FS_Intersection, FS_CardinalityType
    <3> HIDE DEF b, t
    <3> QED BY <1>1, <2>2, <2>3, <3>1, <3>2
  <2>5. Cardinality(trap \cup D) <= Cardinality(trap) + Cardinality(new)
    <3>1. trap \cup D = trap \cup new
      BY <2>1, <2>3
    <3>2. Cardinality(trap \cup new) =
              Cardinality(trap) + Cardinality(new) - Cardinality(trap \cap new)
      BY <1>2, <2>2, FS_Union
    <3>3. Cardinality(trap \cap new) \in Nat
      BY <1>2, FS_Intersection, FS_CardinalityType
    <3>4. Cardinality(trap) \in Nat /\ Cardinality(new) \in Nat
      BY <1>2, <2>2, FS_CardinalityType
    <3>5. Cardinality(trap \cup D) = Cardinality(trap \cup new)
      BY <3>1, Zenon
    <3> QED
      BY <3>2, <3>3, <3>4, <3>5
  <2>6. Cardinality(D) <= 2 * t /\ Cardinality(trap \cup D) <= b + t
    <3>1. Cardinality(D) \in Nat /\ Cardinality(trap \cup D) \in Nat
      BY <1>2, <2>1, <2>2, <2>3, FS_Union, FS_CardinalityType
    <3> HIDE DEF b, t
    <3> QED BY <1>1, <1>2, <2>2, <2>3, <2>4, <2>5, <3>1
  <2> QED
    BY <2>6 DEF D
<1> QED
  BY <1>3, <1>4

\* A sequence with n others behind it.
IsJoined(s, n, f) ==
    /\ DOMAIN (s \o f) = 1 .. Len(s) + n
    /\ \A i \in 1 .. Len(s) : (s \o f)[i] = s[i]
    /\ \A i \in Len(s) + 1 .. Len(s) + n : (s \o f)[i] = f[i - Len(s)]

LEMMA Joined ==
  ASSUME NEW T, NEW s \in Seq(T), NEW n \in Nat, NEW f \in [1 .. n -> T]
  PROVE  IsJoined(s, n, f)
<1> DEFINE all == s \o f
           m == Len(s)
<1>1. f \in Seq(T) /\ Len(f) = n /\ m \in Nat
  <2>1. f \in Seq(T)
    BY SeqDef
  <2>2. DOMAIN f = 1 .. n /\ DOMAIN f = 1 .. Len(f) /\ Len(f) \in Nat
    BY <2>1, LenProperties
  <2> QED
    BY <2>1, <2>2, LenProperties
<1>2. /\ all \in Seq(T) /\ Len(all) = m + n
      /\ \A i \in 1 .. m + n : all[i] = IF i <= m THEN s[i] ELSE f[i - m]
  BY <1>1, ConcatProperties
<1>3. DOMAIN all = 1 .. m + n
  BY <1>2, LenProperties
<1> HIDE DEF all, m
<1>4. ASSUME NEW i \in 1 .. m PROVE all[i] = s[i]
  <2>1. i \in 1 .. m + n /\ i <= m
    BY <1>1
  <2> QED
    BY <1>2, <2>1
<1>5. ASSUME NEW i \in m + 1 .. m + n PROVE all[i] = f[i - m]
  <2>1. i \in 1 .. m + n /\ ~(i <= m)
    BY <1>1
  <2> QED
    BY <1>2, <2>1
<1> QED
  BY <1>3, <1>4, <1>5 DEF IsJoined, all, m

\* What is left to show of an instance with a trap: what its other sets add.
LEMMA ShapeOfParts ==
  ASSUME NEW x, NEW p, TrapSizes(p), Sound(x), x.k = 2, x.universe = 2 * p.block_size,
         NEW m \in Nat, m >= 3, Indices(x) = 1 .. m,
         NEW trap, trap = FirstHalves(p, p.trap_count),
         x.sets[1] = trap, x.sets[2] = LeftBlock(p), x.sets[3] = RightBlock(p),
         \A i \in 4 .. m :
             /\ Cardinality(x.sets[i]) <= 2 * p.trap_count
             /\ Cardinality(trap \cup x.sets[i]) <= p.block_size + p.trap_count
  PROVE  TrapShape(x, p)
<1> DEFINE b == p.block_size
           t == p.trap_count
<1>1. b \in Nat /\ t \in Nat /\ t <= b /\ b < 2 * t
  BY TrapNumbers
<1>2. \A i \in Indices(x) : x.sets[i] \subseteq 0 .. 2 * p.block_size - 1
  BY DEF Sound
<1>3. /\ Cardinality(trap) = 2 * t
      /\ Cardinality(LeftBlock(p)) = b /\ Cardinality(RightBlock(p)) = b
      /\ Cardinality(trap \cup LeftBlock(p)) = b + t
      /\ Cardinality(trap \cup RightBlock(p)) = b + t
  BY TrapAndBlocksCover
<1>4. ASSUME NEW i \in Indices(x)
      PROVE  Value(x, {1, i}) = Cardinality(trap \cup x.sets[i])
  <2>1. Union(x, {1, i}) = x.sets[1] \cup x.sets[i]
    BY CoveredByTwo, Zenon
  <2> QED
    BY <2>1 DEF Value
<1>5. ASSUME NEW i \in Indices(x)
      PROVE  Cardinality(x.sets[i]) <= 2 * t /\ Cardinality(trap \cup x.sets[i]) <= b + t
  <2>1. i = 1 \/ i = 2 \/ i = 3 \/ i \in 4 .. m
    OBVIOUS
  <2> DEFINE size == Cardinality(x.sets[i])
             both == Cardinality(trap \cup x.sets[i])
  <2>2. CASE i = 1
    <3>1. x.sets[i] = trap /\ trap \cup x.sets[i] = trap
      BY <2>2
    <3>2. size = 2 * t /\ both = 2 * t
      BY <1>3, <3>1
    <3> HIDE DEF b, t, size, both
    <3> QED BY <1>1, <3>2 DEF size, both
  <2>3. CASE i = 2
    <3>1. size = b /\ both = b + t
      BY <1>3, <2>3
    <3> HIDE DEF b, t, size, both
    <3> QED BY <1>1, <3>1 DEF size, both
  <2>4. CASE i = 3
    <3>1. size = b /\ both = b + t
      BY <1>3, <2>4
    <3> HIDE DEF b, t, size, both
    <3> QED BY <1>1, <3>1 DEF size, both
  <2>5. CASE i \in 4 .. m
    BY <2>5
  <2> QED
    BY <2>1, <2>2, <2>3, <2>4, <2>5
<1> QED
  BY <1>2, <1>4, <1>5 DEF TrapShape

\* adversarial, version 2.
LEMMA SecondTrapShape ==
  ASSUME NEW p, NEW coupled, NEW d, TrapAccepted(p, coupled), p.construction_version = 2,
         NEW x, x = Trap(p, d), Sound(x)
  PROVE  TrapShape(x, p)
<1> DEFINE head == TrapAndBlocks(p, p.trap_count)
           f == [i \in 1 .. p.distractor_count |-> Distractor(p, d[i])]
           T == {head[1], head[2], head[3]} \cup {f[i] : i \in 1 .. p.distractor_count}
           n == p.distractor_count
<1>1. TrapSizes(p) /\ n \in Nat
  BY DEF TrapAccepted, TrapSizes, VersionOne, IntegerFrom
<1>2. /\ x.sets = head \o f /\ x.k = 2 /\ x.universe = 2 * p.block_size
  <2>1. ~VersionOne(p)
    BY DEF VersionOne
  <2>2. x = Built(p, 2 * p.block_size, head \o f, 2)
    BY <2>1 DEF Trap
  <2> HIDE DEF head, f
  <2> QED
    BY <2>2 DEF Built
<1>3. /\ head[1] = FirstHalves(p, p.trap_count)
      /\ head[2] = LeftBlock(p) /\ head[3] = RightBlock(p)
  BY DEF TrapAndBlocks
<1>4. head \in Seq(T) /\ Len(head) = 3
  BY DEF TrapAndBlocks
<1>5. f \in [1 .. n -> T]
  OBVIOUS
<1>6. /\ DOMAIN x.sets = 1 .. 3 + n
      /\ \A i \in 1 .. 3 : x.sets[i] = head[i]
      /\ \A i \in 3 + 1 .. 3 + n : x.sets[i] = f[i - 3]
  <2>1. head \in Seq(T) /\ n \in Nat /\ f \in [1 .. n -> T]
    BY <1>1, <1>4, <1>5
  <2> HIDE DEF head, f, T, n
  <2>2. IsJoined(head, n, f)
    BY <2>1, Joined
  <2> QED
    BY <1>2, <1>4, <2>2 DEF IsJoined
<1>7. ASSUME NEW i \in 4 .. 3 + n
      PROVE  /\ Cardinality(x.sets[i]) <= 2 * p.trap_count
             /\ Cardinality(FirstHalves(p, p.trap_count) \cup x.sets[i])
                    <= p.block_size + p.trap_count
  <2>1. x.sets[i] = Distractor(p, d[i - 3])
    <3>1. i - 3 \in 1 .. n /\ i \in 3 + 1 .. 3 + n
      BY <1>1
    <3>2. x.sets[i] = f[i - 3]
      BY <1>6, <3>1
    <3> QED
      BY <3>1, <3>2
  <2>2. x.sets[i] \subseteq 0 .. 2 * p.block_size - 1
    <3>1. i \in Indices(x)
      BY <1>1, <1>6 DEF Indices
    <3> QED
      BY <1>2, <3>1 DEF Sound
  <2> QED
    BY <1>1, <2>1, <2>2, DistractorAddsLittle
<1>8. 3 + n \in Nat /\ 3 + n >= 3 /\ Indices(x) = 1 .. 3 + n
  BY <1>1, <1>6 DEF Indices
<1>9. x.sets[1] = head[1] /\ x.sets[2] = head[2] /\ x.sets[3] = head[3]
  BY <1>6
<1> HIDE DEF n, head
<1> QED
  BY <1>1, <1>2, <1>3, <1>7, <1>8, <1>9, ShapeOfParts

\* What is inside the trap adds nothing to it.
LEMMA InsideTrap ==
  ASSUME NEW p, TrapSizes(p), NEW trap, trap = FirstHalves(p, p.trap_count),
         NEW S, S \subseteq trap
  PROVE  /\ Cardinality(S) <= 2 * p.trap_count
         /\ Cardinality(trap \cup S) <= p.block_size + p.trap_count
<1> DEFINE b == p.block_size
           t == p.trap_count
<1>1. b \in Nat /\ t \in Nat /\ t <= b
  BY TrapNumbers
<1>2. IsFiniteSet(trap) /\ Cardinality(trap) = 2 * t
  BY TrapAndBlocksCover
<1>3. Cardinality(S) <= Cardinality(trap)
  BY <1>2, FS_Subset
<1>4. Cardinality(trap \cup S) = 2 * t
  <2>1. trap \cup S = trap
    OBVIOUS
  <2> QED
    BY <1>2, <2>1
<1> HIDE DEF b, t
<1>5. Cardinality(S) <= 2 * t /\ Cardinality(trap \cup S) <= b + t
  BY <1>1, <1>2, <1>3, <1>4
<1> QED
  BY <1>5 DEF b, t

\* A combination is one of the elements there are.
LEMMA UnrankInside ==
  ASSUME NEW n, NEW size, NEW rank
  PROVE  Unrank(n, size, rank) \subseteq 0 .. n - 1
BY DEF Unrank

\* Of controlled_adversarial, the padding and the distractors are inside the
\* trap, whatever the distractors' ranks are.
LEMMA ControlledInside ==
  ASSUME NEW p, TrapSizes(p), NEW sampled
  PROVE  /\ Padding(p) \subseteq FirstHalves(p, p.trap_count)
         /\ ControlledDistractor(p, sampled) \subseteq FirstHalves(p, p.trap_count)
<1> DEFINE b == p.block_size
           t == p.trap_count
           M == MinimumTrap(p)
<1>1. b \in Nat /\ t \in Nat /\ t <= b /\ b < 2 * t /\ M \in Nat /\ M <= t
  BY TrapNumbers
<1> HIDE DEF b, t, M
<1>2. FirstHalves(p, p.trap_count) = 0 .. t - 1 \cup b .. b + t - 1
  BY DEF FirstHalves, b, t
<1>3. Padding(p) \subseteq FirstHalves(p, p.trap_count)
  <2> DEFINE order == [i \in 1 .. 2 * t |-> IF i <= t THEN i - 1 ELSE b + i - t - 1]
             size == 2 * (b - t) + 1
  <2>1. Padding(p) = {order[i] : i \in 1 .. size}
    BY DEF Padding, Prefix, PaddingSize, b, t
  <2>2. ASSUME NEW i \in 1 .. size PROVE order[i] \in 0 .. t - 1 \cup b .. b + t - 1
    <3>1. i \in 1 .. 2 * t
      BY <1>1
    <3> QED
      BY <1>1, <3>1
  <2> HIDE DEF order, size
  <2> QED
    BY <1>2, <2>1, <2>2
<1>4. ControlledDistractor(p, sampled) \subseteq FirstHalves(p, p.trap_count)
  <2> DEFINE rank == IF Forbidden(p) THEN sampled + 1 ELSE sampled
             D == Unrank(2 * M, b, rank)
             order == [i \in 1 .. 2 * M |-> IF i <= M THEN i - 1 ELSE b + i - M - 1]
  <2>1. ControlledDistractor(p, sampled) = {order[e + 1] : e \in D}
    BY DEF ControlledDistractor, SmallestTrap, b, M
  <2>2. D \subseteq 0 .. 2 * M - 1
    BY UnrankInside
  <2> HIDE DEF D
  <2>3. ASSUME NEW e \in D PROVE order[e + 1] \in 0 .. t - 1 \cup b .. b + t - 1
    <3>1. e + 1 \in 1 .. 2 * M /\ e \in Int
      BY <1>1, <2>2
    <3> QED
      BY <1>1, <3>1
  <2> HIDE DEF order
  <2> QED
    BY <1>2, <2>1, <2>3
<1> QED
  BY <1>3, <1>4

\* controlled_adversarial.
LEMMA ControlledTrapShape ==
  ASSUME NEW p, NEW d, ControlledTrapAccepted(p), NEW x, x = ControlledTrap(p, d), Sound(x)
  PROVE  TrapShape(x, p)
<1> DEFINE head == Append(TrapAndBlocks(p, p.trap_count), Padding(p))
           f == [i \in 1 .. p.distractor_count |-> ControlledDistractor(p, d[i])]
           T == {head[1], head[2], head[3], head[4]} \cup {f[i] : i \in 1 .. p.distractor_count}
           n == p.distractor_count
           trap == FirstHalves(p, p.trap_count)
<1>1. TrapSizes(p) /\ n \in Nat
  BY DEF ControlledTrapAccepted, TrapSizes, IntegerFrom, MinimumTrap
<1>2. x.sets = head \o f /\ x.k = 2 /\ x.universe = 2 * p.block_size
  <2>1. x = Built(p, 2 * p.block_size, head \o f, 2)
    BY DEF ControlledTrap
  <2> HIDE DEF head, f
  <2> QED
    BY <2>1 DEF Built
<1>3. /\ head[1] = trap /\ head[2] = LeftBlock(p) /\ head[3] = RightBlock(p)
      /\ head[4] = Padding(p)
  BY DEF TrapAndBlocks
<1>4. head \in Seq(T) /\ Len(head) = 4
  BY DEF TrapAndBlocks
<1>5. f \in [1 .. n -> T]
  OBVIOUS
<1>6. /\ DOMAIN x.sets = 1 .. 4 + n
      /\ \A i \in 1 .. 4 : x.sets[i] = head[i]
      /\ \A i \in 4 + 1 .. 4 + n : x.sets[i] = f[i - 4]
  <2>1. head \in Seq(T) /\ n \in Nat /\ f \in [1 .. n -> T]
    BY <1>1, <1>4, <1>5
  <2> HIDE DEF head, f, T, n, trap
  <2>2. IsJoined(head, n, f)
    BY <2>1, Joined
  <2> QED
    BY <1>2, <1>4, <2>2 DEF IsJoined
<1> HIDE DEF head, trap
<1>7. ASSUME NEW i \in 4 .. 4 + n PROVE x.sets[i] \subseteq trap
  <2>1. CASE i = 4
    <3>1. x.sets[i] = Padding(p)
      BY <1>3, <1>6, <2>1
    <3> QED
      BY <1>1, <3>1, ControlledInside DEF trap
  <2>2. CASE i # 4
    <3>1. i - 4 \in 1 .. n /\ i \in 4 + 1 .. 4 + n
      BY <1>1, <2>2
    <3>2. x.sets[i] = f[i - 4]
      BY <1>6, <3>1
    <3>3. x.sets[i] = ControlledDistractor(p, d[i - 4])
      BY <3>1, <3>2
    <3> QED
      BY <1>1, <3>3, ControlledInside DEF trap
  <2> QED
    BY <2>1, <2>2
<1>8. 4 + n \in Nat /\ 4 + n >= 3 /\ Indices(x) = 1 .. 4 + n
  BY <1>1, <1>6 DEF Indices
<1>9. x.sets[1] = head[1] /\ x.sets[2] = head[2] /\ x.sets[3] = head[3]
  BY <1>6
<1>10. \A i \in 4 .. 4 + n :
           /\ Cardinality(x.sets[i]) <= 2 * p.trap_count
           /\ Cardinality(trap \cup x.sets[i]) <= p.block_size + p.trap_count
  BY <1>1, <1>7, InsideTrap DEF trap
<1> HIDE DEF n
<1> QED
  BY <1>1, <1>2, <1>3, <1>8, <1>9, <1>10, ShapeOfParts DEF trap

-----------------------------------------------------------------------------
(***************************************************************************)
(* Disjoint anchors.                                                       *)
(***************************************************************************)

\* Sets that each have at most n elements, as base[i] + e, cover n of them each.
LEMMA CoveredByEach ==
  ASSUME NEW x, NEW S, IsFiniteSet(S), NEW n \in Nat, NEW base,
         \A i \in S : x.sets[i] \subseteq {base[i] + e : e \in 0 .. n - 1}
  PROVE  Value(x, S) <= Cardinality(S) * n
<1> DEFINE E == 0 .. n - 1
           P == S \X E
           g == [q \in P |-> base[q[1]] + q[2]]
           image == {g[q] : q \in P}
<1>1. IsFiniteSet(E) /\ Cardinality(E) = n
  BY FS_Interval
<1>2. Union(x, S) \subseteq image
  <2> SUFFICES ASSUME NEW i \in S, NEW y \in x.sets[i] PROVE y \in image
    BY DEF Union
  <2>1. PICK e \in E : y = base[i] + e
    OBVIOUS
  <2>2. <<i, e>> \in P
    OBVIOUS
  <2>3. g[<<i, e>>] = y
    BY <2>1, <2>2
  <2> HIDE DEF g, P
  <2> QED
    BY <2>2, <2>3
<1> HIDE DEF E
<1>3. IsFiniteSet(P) /\ Cardinality(P) = Cardinality(S) * n
  BY <1>1, FS_Product
<1>4. IsFiniteSet(image) /\ Cardinality(image) <= Cardinality(P) /\ Cardinality(image) \in Nat
  <2>1. DOMAIN g = P /\ g = [q \in P |-> g[q]]
    OBVIOUS
  <2> HIDE DEF P, g
  <2> QED BY <1>3, <2>1, ImageSize
<1> HIDE DEF image, P
<1>5. IsFiniteSet(Union(x, S)) /\ Cardinality(Union(x, S)) <= Cardinality(image)
  BY <1>2, <1>4, FS_Subset
<1>6. Cardinality(Union(x, S)) \in Nat /\ Cardinality(S) \in Nat
  BY <1>5, FS_CardinalityType
<1>7. Cardinality(P) \in Nat
  BY <1>3, FS_CardinalityType
<1>8. Value(x, S) <= Cardinality(P)
  BY <1>4, <1>5, <1>6, <1>7 DEF Value
<1> QED
  BY <1>3, <1>8

\* Intervals of n numbers, one after the other.
LEMMA InOneInterval ==
  ASSUME NEW n \in Nat, NEW k \in Nat, k >= 1, NEW e \in 0 .. k * n - 1
  PROVE  \E a \in 1 .. k : e \in (a - 1) * n .. a * n - 1
<1> DEFINE S == {a \in 1 .. k : (a - 1) * n <= e}
<1>1. 1 \in S
  BY SMT
<1>2. PICK m \in S : \A j \in S : j <= m
  <2>1. S \subseteq 1 .. k /\ S # {} /\ k \in Int
    BY <1>1
  <2> HIDE DEF S
  <2> QED BY <2>1, GreatestIndex
<1>3. m \in 1 .. k /\ (m - 1) * n <= e /\ e \in Int /\ k * n \in Int
  OBVIOUS
<1>4. m * n \in Int /\ (m - 1) * n \in Int
  BY <1>3
<1>5. e < m * n
  <2>1. CASE m = k
    BY <1>3, <2>1
  <2>2. CASE m # k
    <3>1. m + 1 \in 1 .. k /\ m + 1 \notin S
      BY <1>2, <1>3, <2>2
    <3>2. ~((m + 1 - 1) * n <= e) /\ m + 1 - 1 = m
      BY <1>3, <3>1
    <3> QED
      BY <1>3, <1>4, <3>2
  <2> QED
    BY <2>1, <2>2
<1> QED
  BY <1>3, <1>4, <1>5

LEMMA IntervalsJoined ==
  ASSUME NEW n \in Nat, NEW k \in Nat, k >= 1
  PROVE  UNION {(a - 1) * n .. a * n - 1 : a \in 1 .. k} = 0 .. k * n - 1
<1>1. ASSUME NEW a \in 1 .. k, NEW e \in (a - 1) * n .. a * n - 1
      PROVE  e \in 0 .. k * n - 1
  <2>1. 0 <= (a - 1) * n /\ (a - 1) * n \in Int
    BY SMT
  <2>2. a * n <= k * n /\ a * n \in Int /\ k * n \in Int
    BY SMT
  <2> QED
    BY <2>1, <2>2
<1>2. ASSUME NEW e \in 0 .. k * n - 1
      PROVE  e \in UNION {(a - 1) * n .. a * n - 1 : a \in 1 .. k}
  <2>1. PICK a \in 1 .. k : e \in (a - 1) * n .. a * n - 1
    BY InOneInterval
  <2> QED
    BY <2>1
<1> QED
  BY <1>1, <1>2

\* dominated_heavy: the first anchors cover as much as any k sets do.
LEMMA AnchorsAreOptimum ==
  ASSUME NEW p, NEW d, DominatedHeavyAccepted(p), NEW x, x = DominatedHeavy(p, d)
  PROVE  IsOptimum(x, x.k * p.anchor_size)
<1> DEFINE A == p.anchor_count
           n == p.anchor_size
           c == p.child_count
           k == p.k
           total == A * (c + 1)
           ranks == [a \in 1 .. p.anchor_count |->
                        Ascending(StablePrefix(ChildCapacity(p), d[a], p.child_count))]
           part(i) == IF i <= A THEN Anchor(p, i)
                      ELSE Child(p, Parent(p, i), ranks[Parent(p, i)][PlaceAmong(p, i)])
           base == [i \in 1 .. total |-> ((IF i <= A THEN i ELSE Parent(p, i)) - 1) * n]
<1>1. A \in Nat /\ n \in Nat /\ c \in Nat /\ k \in 1 .. A
  BY DEF DominatedHeavyAccepted, IntegerFrom
<1>2. x.sets = [i \in 1 .. total |-> part(i)] /\ x.k = k
  <2>1. x = Built(p, p.anchor_count * p.anchor_size, [i \in 1 .. total |-> part(i)], p.k)
    BY DEF DominatedHeavy
  <2> HIDE DEF total, part
  <2> QED
    BY <2>1 DEF Built
<1>3. total \in Nat /\ A <= total
  <2>1. A * (c + 1) = A * c + A /\ A * c \in Nat
    BY <1>1
  <2> QED
    BY <1>1, <2>1
<1>4. Indices(x) = 1 .. total
  BY <1>2 DEF Indices
<1>5. ASSUME NEW i \in 1 .. total
      PROVE  x.sets[i] \subseteq {base[i] + e : e \in 0 .. n - 1}
  <2>1. CASE i <= A
    <3> DEFINE low == (i - 1) * n
    <3>1. x.sets[i] = Anchor(p, i)
      BY <1>2, <2>1
    <3>2. base[i] = low
      BY <2>1
    <3>3. i \in Int /\ low \in Int /\ i * n = low + n
      BY <1>1
    <3>4. Anchor(p, i) = low .. i * n - 1
      BY DEF Anchor
    <3> HIDE DEF low, base, n
    <3>5. ASSUME NEW y \in low .. low + n - 1
          PROVE  y \in {low + e : e \in 0 .. n - 1}
      <4>1. y - low \in 0 .. n - 1 /\ y = low + (y - low)
        BY <1>1, <3>3
      <4> QED
        BY <4>1
    <3>6. i * n - 1 = low + n - 1
      BY <1>1, <3>3
    <3>7. Anchor(p, i) = low .. low + n - 1
      BY <3>4, <3>6
    <3>8. x.sets[i] \subseteq {low + e : e \in 0 .. n - 1}
      BY <3>1, <3>5, <3>7
    <3> QED
      BY <3>2, <3>8
  <2>2. CASE ~(i <= A)
    <3> DEFINE a == Parent(p, i)
               rank == ranks[Parent(p, i)][PlaceAmong(p, i)]
    <3>1. x.sets[i] = Child(p, a, rank)
      BY <1>2, <2>2
    <3>2. base[i] = (a - 1) * n
      BY <2>2
    <3> HIDE DEF a, rank, base
    <3>3. Child(p, a, rank) = {base[i] + e : e \in ProperSubset(n, rank)}
      BY <3>2 DEF Child
    <3>4. ProperSubset(n, rank) \subseteq 0 .. n - 1
      BY UnrankInside DEF ProperSubset
    <3> QED
      BY <3>1, <3>3, <3>4
  <2> QED
    BY <2>1, <2>2
<1> HIDE DEF base, part, total
<1>6. ASSUME NEW S \in Selections(x) PROVE Value(x, S) <= k * n
  <2>1. S \subseteq 1 .. total /\ Cardinality(S) = k
    BY <1>2, <1>4 DEF Selections
  <2>2. IsFiniteSet(S)
    <3>1. IsFiniteSet(1 .. total)
      BY <1>3, FS_Interval
    <3> QED
      BY <2>1, <3>1, FS_Subset
  <2>3. \A i \in S : x.sets[i] \subseteq {base[i] + e : e \in 0 .. n - 1}
    BY <1>5, <2>1
  <2> HIDE DEF n
  <2>4. Value(x, S) <= Cardinality(S) * n
    BY <1>1, <2>2, <2>3, CoveredByEach
  <2> QED
    BY <2>1, <2>4
<1>7. k \in Nat /\ k >= 1 /\ k \in Int /\ 1 <= k + 1 /\ k * n \in Nat
  BY <1>1
<1>8. 1 .. k \in Selections(x)
  <2>1. Cardinality(1 .. k) = k - 1 + 1
    BY <1>7, FS_Interval
  <2>2. 1 .. k \subseteq Indices(x)
    BY <1>1, <1>3, <1>4
  <2> QED
    BY <1>2, <1>7, <2>1, <2>2 DEF Selections
<1>9. Value(x, 1 .. k) = k * n
  <2>1. \A a \in 1 .. k : x.sets[a] = (a - 1) * n .. a * n - 1
    <3> SUFFICES ASSUME NEW a \in 1 .. k PROVE x.sets[a] = (a - 1) * n .. a * n - 1
      OBVIOUS
    <3>1. a \in 1 .. total /\ a <= A
      BY <1>1, <1>3
    <3> QED
      BY <1>2, <3>1 DEF part, Anchor
  <2>2. Union(x, 1 .. k) = UNION {(a - 1) * n .. a * n - 1 : a \in 1 .. k}
    BY <2>1 DEF Union
  <2> HIDE DEF n, k
  <2>3. Union(x, 1 .. k) = 0 .. k * n - 1
    BY <1>1, <1>7, <2>2, IntervalsJoined
  <2>4. Cardinality(0 .. k * n - 1) = k * n
    BY <1>7, FS_Interval
  <2> QED
    BY <2>3, <2>4 DEF Value
<1> HIDE DEF n, k
<1>10. IsOptimum(x, k * n)
  BY <1>6, <1>8, <1>9 DEF IsOptimum
<1> QED
  BY <1>2, <1>10 DEF k, n

-----------------------------------------------------------------------------
(***************************************************************************)
(* All families.                                                           *)
(***************************************************************************)

\* What CertificatesTrue says of the last instance.
Certified(x) ==
    /\ Certificate(x) # NoCertificate => IsOptimum(x, Certificate(x).value)
    /\ IsTrap(x) =>
        /\ FirstPick(x) = 1
        /\ SameRatio(Severity(x), <<Certificate(x).value - TwoPicks(x), Certificate(x).value>>)

LEMMA TrapsCertified ==
  ASSUME NEW x, NEW p, TrapShape(x, p), x.parameters = p, IsTrap(x)
  PROVE  Certified(x)
<1> DEFINE b == p.block_size
           t == p.trap_count
<1>1. b \in Nat /\ t \in Nat /\ Residual(p) = b - t
  BY TrapNumbers DEF TrapShape
<1>2. Certificate(x).value = 2 * b
  BY DEF Certificate
<1>3. IsOptimum(x, 2 * b)
  BY BlocksAreOptimum
<1>4. FirstPick(x) = 1 /\ TwoPicks(x) = b + t
  BY GreedyIsCaught
<1>5. Severity(x) = <<Residual(p), 2 * b>>
  BY DEF Severity
<1> HIDE DEF b, t
<1>6. 2 * b - (b + t) = b - t
  BY <1>1
<1>7. SameRatio(Severity(x), <<2 * b - (b + t), 2 * b>>)
  <2>1. Severity(x) = <<b - t, 2 * b>> /\ <<2 * b - (b + t), 2 * b>> = <<b - t, 2 * b>>
    BY <1>1, <1>5, <1>6
  <2>2. SameRatio(<<b - t, 2 * b>>, <<b - t, 2 * b>>)
    BY DEF SameRatio
  <2> QED
    BY <2>1, <2>2
<1> QED
  BY <1>2, <1>3, <1>4, <1>7 DEF Certified

\* The families without a certificate.
Uncertified ==
    {"uniform", "high_overlap", "clustered", "fixed_size", "long_tail", "duplicate_heavy",
     "mixed_cluster", "controlled_high_overlap", "controlled_clustered",
     "controlled_duplicate", "controlled_dominated"}

LEMMA OthersPromiseNothing ==
  ASSUME NEW x, x.family \in Uncertified
  PROVE  Certified(x)
<1>1. ~IsTrap(x) /\ x.family # "dominated_heavy"
  BY DEF IsTrap, Uncertified
<1> QED
  BY <1>1 DEF Certified, Certificate

\* An instance says what it was made from.
LEMMA BuiltFrom ==
  ASSUME NEW p, NEW universe, NEW sets, NEW k
  PROVE  /\ Built(p, universe, sets, k).family = p.family
         /\ Built(p, universe, sets, k).parameters = p
BY DEF Built

LEMMA FamilyKept ==
  ASSUME NEW p, NEW coupled, NEW d, p.family \in Uncertified
  PROVE  Generated(p, coupled, d).family = p.family
<1>1. CASE p.family = "uniform"
  <2>1. Generated(p, coupled, d) = Uniform(p, d)
    BY <1>1 DEF Generated
  <2> QED
    BY <2>1, BuiltFrom DEF Uniform
<1>2. CASE p.family = "high_overlap"
  <2>1. Generated(p, coupled, d) = HighOverlap(p, d)
    BY <1>2 DEF Generated
  <2> QED
    BY <2>1, BuiltFrom DEF HighOverlap
<1>3. CASE p.family = "clustered"
  <2>1. Generated(p, coupled, d) = Clustered(p, d)
    BY <1>3 DEF Generated
  <2> QED
    BY <2>1, BuiltFrom DEF Clustered
<1>4. CASE p.family = "fixed_size"
  <2>1. Generated(p, coupled, d) = FixedSize(p, coupled, d)
    BY <1>4 DEF Generated
  <2> QED
    BY <2>1, BuiltFrom DEF FixedSize
<1>5. CASE p.family = "long_tail"
  <2>1. Generated(p, coupled, d) = LongTail(p, d)
    BY <1>5 DEF Generated
  <2> QED
    BY <2>1, BuiltFrom DEF LongTail
<1>6. CASE p.family = "duplicate_heavy"
  <2>1. Generated(p, coupled, d) = DuplicateHeavy(p, d)
    BY <1>6 DEF Generated
  <2> QED
    BY <2>1, BuiltFrom DEF DuplicateHeavy
<1>7. CASE p.family = "mixed_cluster"
  <2>1. Generated(p, coupled, d) = MixedCluster(p, d)
    BY <1>7 DEF Generated
  <2> QED
    BY <2>1, BuiltFrom DEF MixedCluster
<1>8. CASE p.family = "controlled_high_overlap"
  <2>1. Generated(p, coupled, d) = ControlledHighOverlap(p, d)
    BY <1>8 DEF Generated
  <2> QED
    BY <2>1, BuiltFrom DEF ControlledHighOverlap
<1>9. CASE p.family = "controlled_clustered"
  <2>1. Generated(p, coupled, d) = ControlledClustered(p, d)
    BY <1>9 DEF Generated
  <2> QED
    BY <2>1, BuiltFrom DEF ControlledClustered
<1>10. CASE p.family = "controlled_duplicate"
  <2>1. Generated(p, coupled, d) = ControlledDuplicate(p, d)
    BY <1>10 DEF Generated
  <2> QED
    BY <2>1, BuiltFrom DEF ControlledDuplicate
<1>11. CASE p.family = "controlled_dominated"
  <2>1. Generated(p, coupled, d) = ControlledDominated(p, d)
    BY <1>11 DEF Generated
  <2> QED
    BY <2>1, BuiltFrom DEF ControlledDominated
<1> QED
  BY <1>1, <1>2, <1>3, <1>4, <1>5, <1>6, <1>7, <1>8, <1>9, <1>10, <1>11 DEF Uncertified

\* Whatever is drawn, what a generator makes of parameters it accepts is
\* certified rightly.
LEMMA GeneratedCertified ==
  ASSUME NEW p, NEW coupled, NEW d, ParametersAccepted(p, coupled),
         NEW x, x = Generated(p, coupled, d), Sound(x)
  PROVE  Certified(x)
<1>1. p.family \in Uncertified \cup {"dominated_heavy", "controlled_adversarial", "adversarial"}
  BY DEF ParametersAccepted, Uncertified
<1>2. CASE p.family \in Uncertified
  BY <1>2, FamilyKept, OthersPromiseNothing
<1>3. CASE p.family = "dominated_heavy"
  <2>1. x = DominatedHeavy(p, d) /\ DominatedHeavyAccepted(p)
    BY <1>3 DEF Generated, ParametersAccepted
  <2>2. x.family = "dominated_heavy" /\ x.parameters = p
    BY <1>3, <2>1, BuiltFrom DEF DominatedHeavy
  <2>3. IsOptimum(x, x.k * p.anchor_size)
    BY <2>1, AnchorsAreOptimum
  <2>4. ~IsTrap(x) /\ Certificate(x).value = x.k * p.anchor_size
    BY <2>2 DEF IsTrap, Certificate
  <2> QED
    BY <2>3, <2>4 DEF Certified
<1>4. CASE p.family = "controlled_adversarial"
  <2>1. x = ControlledTrap(p, d) /\ ControlledTrapAccepted(p)
    BY <1>4 DEF Generated, ParametersAccepted
  <2>2. x.family = "controlled_adversarial" /\ x.parameters = p
    BY <1>4, <2>1, BuiltFrom DEF ControlledTrap
  <2>3. TrapShape(x, p) /\ IsTrap(x)
    BY <2>1, <2>2, ControlledTrapShape DEF IsTrap
  <2> QED
    BY <2>2, <2>3, TrapsCertified
<1>5. CASE p.family = "adversarial"
  <2>1. x = Trap(p, d) /\ TrapAccepted(p, coupled)
    BY <1>5 DEF Generated, ParametersAccepted
  <2>2. x.family = "adversarial" /\ x.parameters = p
    BY <1>5, <2>1, BuiltFrom DEF Trap
  <2>3. CASE p.construction_version = 2
    <3>1. TrapShape(x, p) /\ IsTrap(x)
      BY <2>1, <2>2, <2>3, SecondTrapShape DEF IsTrap
    <3> QED
      BY <2>2, <3>1, TrapsCertified
  <2>4. CASE p.construction_version # 2
    <3>1. ~IsTrap(x) /\ Certificate(x) = NoCertificate
      BY <2>2, <2>4 DEF IsTrap, Certificate
    <3> QED
      BY <3>1 DEF Certified
  <2> QED
    BY <2>3, <2>4
<1> QED
  BY <1>1, <1>2, <1>3, <1>4, <1>5

-----------------------------------------------------------------------------
(***************************************************************************)
(* Planning.                                                               *)
(***************************************************************************)

CertificateInv ==
    /\ planned \in Seq(Range(planned))
    /\ \A i \in DOMAIN planned : Certified(planned[i].instance)

LEMMA PlannedOneMore ==
  ASSUME CertificateInv, NEW n, Certified(n.instance), planned' = Append(planned, n)
  PROVE  CertificateInv'
<1> DEFINE S == Range(planned) \cup {n}
           m == Len(planned)
<1>1. planned \in Seq(S) /\ m \in Nat /\ DOMAIN planned = 1 .. m
  <2>1. planned \in Seq(Range(planned))
    BY DEF CertificateInv
  <2> QED
    BY <2>1, LenProperties, SeqDef
<1> HIDE DEF S
<1>2. n \in S
  BY DEF S
<1>3. /\ planned' \in Seq(S) /\ Len(planned') = m + 1
      /\ \A i \in 1 .. m : planned'[i] = planned[i]
      /\ planned'[m + 1] = n
  BY <1>1, <1>2, AppendProperties
<1> HIDE DEF m
<1>4. DOMAIN planned' = 1 .. m + 1
  BY <1>1, <1>3, LenProperties
<1>5. planned' \in Seq(Range(planned)')
  <2> DEFINE R == {planned'[i] : i \in DOMAIN planned'}
  <2>1. planned' = [i \in 1 .. m + 1 |-> planned'[i]]
    BY <1>1, <1>3, <1>4, LenProperties
  <2>2. planned' \in [1 .. m + 1 -> R] /\ m + 1 \in Nat
    BY <1>1, <1>4, <2>1
  <2>3. planned' \in Seq(R)
    BY <2>2, SeqDef
  <2> QED
    BY <2>3 DEF Range
<1>6. ASSUME NEW i \in DOMAIN planned' PROVE Certified(planned'[i].instance)
  <2>1. i \in 1 .. m \/ i = m + 1
    BY <1>1, <1>4
  <2>2. CASE i \in 1 .. m
    BY <1>1, <1>3, <2>2 DEF CertificateInv
  <2>3. CASE i = m + 1
    BY <1>3, <2>3
  <2> QED
    BY <2>1, <2>2, <2>3
<1> QED
  BY <1>5, <1>6 DEF CertificateInv

LEMMA GenerateCertified ==
  ASSUME CertificateInv, NEW i, NEW r, NEW p, NEW pair, Generate(i, r, p, pair)
  PROVE  CertificateInv'
<1> PICK stream, d, x :
        /\ x = Made(p, pair # Omitted, d)
        /\ planned' = IF x # Omitted /\ Sound(x)
                      THEN Append(planned, PlannedFrom(i, r, pair, x)) ELSE planned
  BY DEF Generate
<1>1. CASE x # Omitted /\ Sound(x)
  <2>1. ParametersAccepted(p, pair # Omitted) /\ x = Generated(p, pair # Omitted, d)
    BY <1>1 DEF Made
  <2>2. Certified(x)
    BY <1>1, <2>1, GeneratedCertified
  <2>3. PlannedFrom(i, r, pair, x).instance = x
    BY DEF PlannedFrom
  <2> QED
    BY <1>1, <2>2, <2>3, PlannedOneMore
<1>2. CASE ~(x # Omitted /\ Sound(x))
  BY <1>2 DEF CertificateInv
<1> QED
  BY <1>1, <1>2

LEMMA CertificateInvIsInductive ==
  /\ AuditInit => CertificateInv
  /\ CertificateInv /\ [AuditNext]_<<planVars, report>> => CertificateInv'
<1>1. AuditInit => CertificateInv
  BY DEF AuditInit, PlanInit, CertificateInv
<1>2. ASSUME CertificateInv, [AuditNext]_<<planVars, report>> PROVE CertificateInv'
  <2>1. CASE PlanInstance
    BY <1>2, <2>1, GenerateCertified DEF PlanInstance
  <2>2. CASE ~PlanInstance
    <3>1. UNCHANGED planned
      BY <1>2, <2>2 DEF AuditNext, PlanNext, Parse, Preview, Start, Record, Schedule,
                        AuditScans, planVars
    <3> QED
      BY <1>2, <3>1 DEF CertificateInv
  <2> QED
    BY <2>1, <2>2
<1> QED
  BY <1>1, <1>2

\* For every configuration, and whatever is drawn, the value of a certificate
\* that known_optimum_certificate gives to an instance that was made is the
\* optimum of it; and of the traps greedy takes the bait first, and loses the
\* part of the optimum that is called their severity.
THEOREM CertificatesAreTrue == AuditSpec => []CertificatesTrue
<1>1. CertificateInv => CertificatesTrue
  <2> SUFFICES ASSUME CertificateInv, planned # <<>>
               PROVE  Certified(planned[Len(planned)].instance)
    BY DEF CertificatesTrue, Certified
  <2>1. planned \in Seq(Range(planned))
    BY DEF CertificateInv
  <2>2. Len(planned) \in DOMAIN planned
    <3>1. Len(planned) \in Nat /\ DOMAIN planned = 1 .. Len(planned) /\ Len(planned) # 0
      BY <2>1, LenProperties, EmptySeq
    <3> QED
      BY <3>1
  <2> QED
    BY <2>2 DEF CertificateInv
<1> QED
  BY <1>1, CertificateInvIsInductive, PTL DEF AuditSpec

=============================================================================
