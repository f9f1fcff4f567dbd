--------------------------- MODULE SlopeBuckets ---------------------------
(***************************************************************************)
(* Slopes and offsets of valences are stored in four bits each.  The first *)
(* pass of pull_from_files() in src/recgen/big_mem.c (382-870) counts the  *)
(* values, puts the special one (slope 1, offset 0) into a bucket of its   *)
(* own and neighbours into buckets of about equal weight.  The weighted    *)
(* averages of the buckets go to so_compressed.out, the number of a        *)
(* value's bucket (its "fewbit") into the store.                           *)
(*                                                                         *)
(* A "count" is a function from values to how often they occur.            *)
(* Percentages are kept as whole numbers: 100 percent is Whole(n).         *)
(***************************************************************************)
EXTENDS Integers, FiniteSets, SequencesExt, Functions, FiniteSetsExt

CONSTANTS
    NumBuckets,    \* NUM_SO_BUCKETS
    Leftovers      \* what entries of buckets_slope that are not filled may hold

SpecialSlope  == 10     \* slope 1, times FLOAT_TO_SHORT_MULT
SpecialOffset == 0

\* How often each value occurs in a sequence of values.
Counts(values) ==
    [v \in Range(values) |-> Cardinality({i \in DOMAIN values : values[i] = v})]

\* qsort() with guycmp() puts one of these first.
MostFrequent(count) == {v \in DOMAIN count : \A w \in DOMAIN count : count[w] <= count[v]}

\* 100 percent of n values, in the unit of the shares below.
Whole(n) == 20 * NumBuckets * n

\* bmh_round() of a quotient: halves away from zero.
RoundDiv(a, b) ==
    LET abs(i)     == IF i < 0 THEN -i ELSE i
        half(p, q) == (2 * p + q) \div (2 * q)
    IN IF (a >= 0) = (b > 0) THEN half(abs(a), abs(b)) ELSE -half(abs(a), abs(b))

\* The distance between the shares at which buckets end, and all there is to
\* share out.  Without the special value they stay what they were before: the
\* defaults, or for offsets what the slopes set.
DefaultBoundaries(n) == [inc |-> NumBuckets * n, tot |-> 0]
Boundaries(count, special, before, n) ==
    IF special \in DOMAIN count
    THEN [inc |-> 20 * (n - count[special]), tot |-> Whole(n - count[special])]
    ELSE before
Unreachable(n) == 2 * Whole(n)      \* next_boundary = 200

\* The values in descending order; the special one is taken out and leaves an
\* entry of 0 that never occurs at the end.
Ladder(count, special) ==
    LET values == DOMAIN count \ {special}
        rest   == [i \in 1..Cardinality(values) |->
                     CHOOSE v \in values : Cardinality({w \in values : w > v}) = i - 1]
    IN [i \in DOMAIN rest |-> [guy |-> rest[i], count |-> count[rest[i]]]]
       \o IF special \in DOMAIN count THEN <<[guy |-> 0, count |-> 0]>> ELSE <<>>

\* What the loop over a ladder finds: the entries of the buckets that it may
\* leave unfilled, and the share (of n values) that bucket_percent_total holds.
\* Only a bucket that is closed resets that: the loop over the offsets starts
\* with the share of the last entry of the slopes.
Entering(leftover, share) == [start |-> leftover.start, stop |-> leftover.stop, share |-> share]
Later(before, closed)     == [before EXCEPT !.share = IF closed = 0 THEN @ ELSE 0]
LastShare(ladder)         == ladder[Len(ladder)].count

\* A bucket of the entries from..i-1 of the ladder.  One closed before the
\* first entry has the value 0 (0/0 converts to 0), and its lower end is
\* read in front of the array.
Bucket(ladder, from, i, before) ==
    LET total(f) == SumFunction([j \in from..i-1 |-> f[j]])
        counts   == [j \in from..i-1 |-> ladder[j].count]
        products == [j \in from..i-1 |-> ladder[j].count * ladder[j].guy]
    IN [value |-> IF from = i THEN 0 ELSE RoundDiv(total(products), before.share + total(counts)),
        start |-> IF i = 1 THEN before.start ELSE ladder[i-1].guy,
        stop  |-> ladder[from].guy]

\* The bucket being closed is the last but one: the rest goes into one more.
LastBucket(buckets) == Len(buckets) + 1 = NumBuckets - 2

\* The loop over the ladder; b are the boundaries.
Buckets(ladder, b, n, before) ==
    LET share(i) == 20 * NumBuckets * ladder[i].count
        turns[i \in 0..Len(ladder)] ==
          IF i = 0 THEN [cume |-> 0, next |-> b.inc, from |-> 1, buckets |-> <<>>]
          ELSE LET s == turns[i-1]
                   crossed == s.cume + share(i) > s.next \/ i = Len(ladder)
                   last    == LastBucket(s.buckets) \/ s.next >= b.tot - b.inc
               IN IF crossed
                  THEN [cume    |-> s.cume + share(i),
                        next    |-> IF last THEN Unreachable(n) ELSE s.next + b.inc,
                        from    |-> i,
                        buckets |-> Append(s.buckets, Bucket(ladder, s.from, i, Later(before, Len(s.buckets))))]
                  ELSE [s EXCEPT !.cume = @ + share(i)]
    IN turns[Len(ladder)].buckets

\* A line of so_compressed.out.
SoLine(count, special, buckets) ==
    (IF special \in DOMAIN count THEN <<special>> ELSE <<>>)
    \o [i \in DOMAIN buckets |-> buckets[i].value]

\* Mutant: the first match counts.
Fewbit_FirstMatch(v, first, count, special, buckets, leftover) ==
    LET shift   == IF special \in DOMAIN count THEN 1 ELSE 0
        entry(j) == IF j <= Len(buckets) THEN buckets[j] ELSE leftover
        matches == {j \in 1..NumBuckets - shift : v \in entry(j).start..entry(j).stop}
    IN IF first \/ matches = {} THEN 0 ELSE Min(matches) - 1 + shift

\* The number of the bucket of v.  The entries behind the filled buckets are
\* compared as well, and the last match counts; without one the number is the
\* 0 it was loaded with.  first: v is the first by frequency and slope 1
\* occurs, which is taken for v being the special value, also for offsets.
Fewbit(v, first, count, special, buckets, leftover) ==
    LET shift   == IF special \in DOMAIN count THEN 1 ELSE 0
        entry(j) == IF j <= Len(buckets) THEN buckets[j] ELSE leftover
        matches == {j \in 1..NumBuckets - shift : v \in entry(j).start..entry(j).stop}
    IN IF first \/ matches = {} THEN 0 ELSE Max(matches) - 1 + shift

\* create_pcrs(): the rating of y = mx + b, and of x = (y - b) / m, from a
\* rating r of the other one; all but r are times 10.
Bounded(a)        == Max({10, Min({320, a})})
Pcry(m, b, r)     == Bounded(r * m + b)
Pcrx(m, b, r)     == Bounded(IF m = 0 THEN 0 ELSE RoundDiv(10 * (10 * r - b), m))
=============================================================================
