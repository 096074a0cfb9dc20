----------------------------- MODULE Statistics -----------------------------
(***************************************************************************)
(* The order statistics of runner/report.py: medians, their intervals, and *)
(* which implementation is clearly the best.  `values` is a function from  *)
(* runs to numbers; probabilities are counted in outcomes of n coin        *)
(* tosses, of which there are 2^n, and a median is counted twice, so all   *)
(* numbers are integers.                                                   *)
(***************************************************************************)
EXTENDS Integers, FiniteSets, FiniteSetsExt, Functions, Combinatorics

CONSTANT Grain      \* the (doubled) medians that display alike

ASSUME GrainAssumption == Grain \in Nat \ {0}

Count(values) == Cardinality(DOMAIN values)

\* The k-th of the sorted values.
Nth(values, k) ==
    CHOOSE v \in Range(values) :
        /\ Cardinality({i \in DOMAIN values : values[i] < v}) < k
        /\ Cardinality({i \in DOMAIN values : values[i] <= v}) >= k

median(values) == Nth(values, (Count(values) + 1) \div 2) + Nth(values, Count(values) \div 2 + 1)

\* At most j - 1 heads.
AtMost(n, j) == MapThenSumSet(LAMBDA k : choose(n, k), 0 .. j - 1)

\* Mistakes: IntervalsAreRight, 5% on either side; BoldIsEarned, the largest
\* median wins as soon as it reads differently.
RankOneSided(n) ==
    LET from[j \in 1 .. n] ==
            IF j < n \div 2 /\ 20 * AtMost(n, j + 1) <= 2^n THEN from[j + 1] ELSE j
    IN  from[1]

separatedByMedian(first, second, lowerBetter) == median(first) # median(second)

\* The loop of median_ci: j is increased while no more than 2.5% are left out
\* on either side.
Rank(n) ==
    LET from[j \in 1 .. n] ==
            IF j < n \div 2 /\ 40 * AtMost(n, j + 1) <= 2^n THEN from[j + 1] ELSE j
    IN  from[1]

\* The interval, and its coverage in 2^n-ths; 0 for a single run.
low(values)  == Nth(values, Rank(Count(values)))
high(values) == Nth(values, Count(values) - Rank(Count(values)) + 1)
coverage(n)  == 2^n - 2 * AtMost(n, Rank(n))

\* The intervals of two medians do not overlap.
separated(first, second, lowerBetter) ==
    IF lowerBetter THEN high(first) < low(second) ELSE low(first) > high(second)

fmt(med) == med \div Grain

\* clear_best, as a set: `groups` gives each implementation with a median the
\* values of its runs.  The one ranked first is compared with the second only
\* (any of those that are second, of which the code takes the first asked for).
clear_best(groups, lowerBetter) ==
    LET Beats(a, b) == IF lowerBetter THEN median(groups[a]) < median(groups[b])
                       ELSE median(groups[a]) > median(groups[b])
        Others(b)   == DOMAIN groups \ {b}
        Second(b, r) == \A c \in Others(b) \ {r} : ~Beats(c, r)
    IN  {b \in DOMAIN groups :
            /\ Others(b) # {}
            /\ \A r \in Others(b) : Beats(b, r)
            /\ \E r \in Others(b) :
                  /\ Second(b, r)
                  /\ fmt(median(groups[b])) # fmt(median(groups[r]))
                  /\ separated(groups[b], groups[r], lowerBetter)}

-----------------------------------------------------------------------------
\* The outcomes of n tosses, as the runs that fall below the median of all
\* possible runs: those where that median is between the j-th value from
\* either end.
Covered(n, j) == Cardinality({below \in SUBSET (1 .. n) : Cardinality(below) \in j .. n - j})

\* The interval of n runs covers what it says it covers, and is the narrowest
\* that covers 95%; with fewer than six runs none does, and it is that from the
\* smallest to the largest value (report.py:159).
IntervalIsRight(n) ==
    LET ranks == [i \in 1 .. n |-> i]
        j     == low(ranks)
    IN  /\ high(ranks) = n + 1 - j
        /\ coverage(n) = Covered(n, j)
        /\ n >= 6 <=> 20 * coverage(n) >= 19 * 2^n
        /\ n < 6 => j = 1
        /\ \A k \in j + 1 .. n : 20 * Covered(n, k) < 19 * 2^n
=============================================================================
