------------------------------- MODULE Floats -------------------------------
(***************************************************************************)
(* The numbers of the statistics.  A fraction <<n, d>> stands for n / d; a *)
(* float is a fraction whose denominator is a power of two and whose       *)
(* numerator has at most Precision significant bits (53 in the program).   *)
(* The CSV files hold Decimals decimals (ten in the program), the summary  *)
(* SummaryDecimals of a gap (eight) and CoverageDecimals of a coverage     *)
(* (four), and every derived table is computed from what raw_results.csv   *)
(* holds.                                                                  *)
(***************************************************************************)
EXTENDS Integers, FiniteSetsExt

CONSTANTS Precision, Decimals, SummaryDecimals, CoverageDecimals

ASSUME FloatsAssumption ==
    /\ {Precision, Decimals, SummaryDecimals} \subseteq Nat \ {0} /\ CoverageDecimals \in Nat
    /\ CoverageDecimals < SummaryDecimals /\ SummaryDecimals < Decimals
    /\ 10 ^ Decimals \in Nat

Less(x, y) == x[1] * y[2] < y[1] * x[2]
AtMost(x, y) == ~Less(y, x)
Zero == <<0, 1>>
One == <<1, 1>>
Negative(x) == <<-x[1], x[2]>>
InUnit(x) == AtMost(Zero, x) /\ AtMost(x, One)
Magnitude(x) == IF x[1] < 0 THEN Negative(x) ELSE x

\* The integer nearest to n / d, the even one of two.
Nearest(n, d) ==
    LET q == n \div d
        r == n % d
    IN  IF 2 * r < d \/ (2 * r = d /\ q % 2 = 0) THEN q ELSE q + 1

\* No value of the statistics reaches 2^Precision, or is near 2^-Precision.
Exponents == 0 .. 2 * Precision

\* n / d in its lowest terms, when d is a power of two.
Lowest(n, d) ==
    LET odd(x) == x % 2 = 1
        e == CHOOSE i \in 0 .. 30 : n % 2 ^ i = 0 /\ d % 2 ^ i = 0 /\ (odd(n \div 2 ^ i) \/ odd(d \div 2 ^ i))
    IN  <<n \div 2 ^ e, d \div 2 ^ e>>

\* The float nearest to a fraction.
Fl(x) ==
    IF x[1] = 0 THEN Zero
    ELSE LET n == Magnitude(x)[1]
             e == CHOOSE i \in Exponents :
                     /\ 2 ^ (Precision - 1) * x[2] <= n * 2 ^ i
                     /\ n * 2 ^ i < 2 ^ Precision * x[2]
         IN  Lowest(Nearest(x[1] * 2 ^ e, x[2]), 2 ^ e)

\* What a number is after it was written with so many decimals and read.
Written(x, places) == Fl(<<Nearest(x[1] * 10 ^ places, x[2]), 10 ^ places>>)
Dec(x) == Written(x, Decimals)

\* Is n / total a float in the unit, as it is and with its decimals?
Precise(n, total) ==
    LET x == Fl(<<n, total>>)
    IN  /\ \A y \in {x, Dec(x)} : y \in Nat \X (Nat \ {0}) /\ y[1] <= y[2]
        /\ x = Zero <=> n = 0

\* The exact sum of two floats, over the larger denominator.
Plus(x, y) ==
    LET d == Max({x[2], y[2]})
    IN  <<x[1] * (d \div x[2]) + y[1] * (d \div y[2]), d>>

Distance(x, y) == Magnitude(Plus(x, Negative(y)))

\* Two numbers that differ by five units of the last decimal at most, the
\* absolute tolerance of the contracts, or by ten units of the larger one,
\* the relative tolerance of math.isclose: it is the last decimal of a tenth.
Within(x, y) == AtMost(<<Distance(x, y)[1] * 10 ^ Decimals, Distance(x, y)[2]>>, <<5, 1>>)
RelativelyClose(x, y) ==
    LET d == Distance(x, y)
    IN  \E z \in {x, y} : d[1] * 10 ^ Decimals <= 10 * Magnitude(z)[1] * (d[2] \div z[2])
Close(x, y) == Within(x, y) \/ RelativelyClose(x, y)

Quotient(x, y) == Fl(<<x[1] * y[2], x[2] * y[1]>>)
Difference(x, y) == Fl(Plus(x, Negative(y)))

-----------------------------------------------------------------------------
(***************************************************************************)
(* Samples: a set of pairs, of what is sampled and a number.               *)
(***************************************************************************)

\* fmean: a sum rounded once, and a division.
Mean(S) ==
    LET sum == Fl(MapThenFoldSet(Plus, Zero, LAMBDA s : s[2],
                                 LAMBDA T : CHOOSE s \in T : TRUE, S))
    IN  Fl(<<sum[1], sum[2] * Cardinality(S)>>)

Least(S) == (CHOOSE s \in S : \A t \in S : AtMost(s[2], t[2]))[2]
Greatest(S) == (CHOOSE s \in S : \A t \in S : AtMost(t[2], s[2]))[2]

\* The number that n others precede when they are sorted.
Ranked(S, n) ==
    (CHOOSE s \in S :
        /\ Cardinality({t \in S : Less(t[2], s[2])}) <= n
        /\ n < Cardinality({t \in S : AtMost(t[2], s[2])}))[2]

\* A step from one number towards another, which never leaves the two.
Between(lower, upper, value) ==
    IF Less(value, lower) THEN lower ELSE IF Less(upper, value) THEN upper ELSE value

Weighted(lower, step, weight) ==
    Fl(Plus(lower, Fl(<<step[1] * weight[1], step[2] * weight[2]>>)))

Interpolated(lower, upper, weight) ==
    IF weight = Zero THEN lower
    ELSE Between(lower, upper, Weighted(lower, Difference(upper, lower), weight))

\* The type-7 quantile; the weight is a float, and so is each step to the value.
AtPosition(S, position) ==
    LET below == position[1] \div position[2]
    IN  Interpolated(Ranked(S, below), Ranked(S, below + 1), Difference(position, <<below, 1>>))

Quantile(S, p) == AtPosition(S, Fl(<<(Cardinality(S) - 1) * p[1], p[2]>>))

\* statistics.median takes the mean of the middle two.
Median(S) ==
    LET half == Cardinality(S) \div 2
    IN  IF Cardinality(S) % 2 = 1 THEN Ranked(S, half)
        ELSE LET two == Fl(Plus(Ranked(S, half - 1), Ranked(S, half)))
             IN  Fl(<<two[1], two[2] * 2>>)
=============================================================================
