------------------------------- MODULE Scoring --------------------------------
(***************************************************************************)
(* Values that may be missing, and the scores made of them                 *)
(* (src/backend/core/data_quality.py, src/backend/analytics/scoring.py).   *)
(* A ratio is a whole percentage, a score a whole number of points: where  *)
(* the code divides floats, this rounds down.                              *)
(***************************************************************************)
EXTENDS Integers, Sequences, FiniteSetsExt, SequencesExt

NA == -1000000              \* the marker of a value that is not available
Known(x) == x # NA

\* The one element of a set: in The({F(x) : x \in {e}}), e is worked out once.
The(S) == CHOOSE x \in S : TRUE
\* The function f, its values worked out once.
Evaluated(f) == CHOOSE g \in {f} : g = g

\* The function f with x for n.
Put(f, n, x) == [m \in DOMAIN f \cup {n} |-> IF m = n THEN x ELSE f[m]]

\* The elements of a finite set in a strict order, each at its rank.  (The
\* library's SetToSortSeq rests on SortSeq, which the prover does not know.)
InOrder(S, before(_, _)) ==
    [i \in 1..Cardinality(S) |-> CHOOSE x \in S : Cardinality({y \in S : before(y, x)}) = i - 1]

\* The indices of a function, the greatest value first, equal ones in their order.
Best(f) == InOrder(DOMAIN f, LAMBDA i, j : f[i] > f[j] \/ (f[i] = f[j] /\ i < j))

\* The elements of a sequence that pass a test, in their order.
Keep(s, test(_)) ==
    LET at == InOrder({i \in DOMAIN s : test(s[i])}, LAMBDA i, j : i < j)
    IN  [k \in DOMAIN at |-> s[at[k]]]

\* The point of a scale that is nearest to x.
Clamp(lo, x, hi) == IF x \in lo..hi THEN x ELSE IF x > hi THEN hi ELSE lo

\* Rounded down, whatever the signs.
Quot(n, d) == IF d > 0 THEN n \div d ELSE (-n) \div (-d)

SafeDiv(n, d) == IF Known(n) /\ Known(d) /\ d # 0 THEN Quot(100 * n, d) ELSE NA
PositiveDiv(n, d) == IF Known(d) /\ d < 0 THEN NA ELSE SafeDiv(n, d)
Plus(a, b) == IF Known(a) /\ Known(b) THEN a + b ELSE NA
Magnitude(x) == IF Known(x) /\ x < 0 THEN -x ELSE x

\* Growth from a loss is no growth rate.
SafeGrowth(current, prior) ==
    IF Known(current) /\ Known(prior) /\ prior > 0
    THEN Quot(100 * (current - prior), prior) ELSE NA

\* Confidence, the best first.
Confidences == {"HIGH", "MEDIUM", "LOW", "UNVERIFIED"}
ConfidenceRank == [HIGH |-> 3, MEDIUM |-> 2, LOW |-> 1, UNVERIFIED |-> 0]

ConfidenceFromCoverage(available, total) ==
    CASE total > 0 /\ 10 * available >= 9 * total -> "HIGH"
      [] total > 0 /\ 10 * available < 9 * total /\ 10 * available >= 7 * total -> "MEDIUM"
      [] total > 0 /\ 10 * available < 7 * total /\ 10 * available >= 4 * total -> "LOW"
      [] total <= 0 \/ 10 * available < 4 * total -> "UNVERIFIED"

StalenessThreshold == [price |-> 5, fundamentals |-> 200]

\* How stale data of an age is: "fresh" when there is no finding.
Severity(dataset, age) ==
    LET threshold == StalenessThreshold[dataset]
    IN  CASE age = NA \/ age <= threshold -> "fresh"
          [] age # NA /\ age > threshold /\ age <= 2 * threshold -> "warning"
          [] age # NA /\ age > 2 * threshold -> "critical"

------------------------------------------------------------------------------
(* Scores.  A score is made of weighted parts, some of which are missing.  *)

Total(weights, names) == MapThenSumSet(LAMBDA n : weights[n], names)
Usable(parts) == {n \in DOMAIN parts : Known(parts[n])}

Mean(weights, parts) ==
    LET have == Usable(parts)
    IN  Quot(MapThenSumSet(LAMBDA n : weights[n] * parts[n], have), Total(weights, have))

\* The weight of what is missing goes to the rest.
Blend(weights, parts) == IF Usable(parts) = {} THEN NA ELSE Mean(weights, parts)

\* Below 34 parts in a hundred of the weight no score is published.
BuildScore(weights, parts) ==
    LET have == Usable(parts)
        coverage == Quot(100 * Total(weights, have), Total(weights, DOMAIN parts))
        enough == have # {} /\ 100 * Total(weights, have) >= 34 * Total(weights, DOMAIN parts)
    IN  [value |-> IF enough THEN Clamp(0, Mean(weights, parts), 100) ELSE NA,
         coverage |-> coverage,
         confidence |-> IF enough
                        THEN ConfidenceFromCoverage(Cardinality(have), Cardinality(DOMAIN parts))
                        ELSE "UNVERIFIED",
         parts |-> parts]

NoResult == [value |-> NA, coverage |-> 0, confidence |-> "UNVERIFIED", parts |-> <<>>]

\* From the worst value, at no points, to the best, at a hundred; when lower
\* is better the worst is the greater.
Linear(x, worst, best) ==
    CASE x = NA -> NA
      [] x # NA /\ worst = best -> 50
      [] x # NA /\ worst # best -> Clamp(0, Quot(100 * (x - worst), best - worst), 100)

\* The score of the first band that x does not exceed, else of the last.
Bands(x, bands) ==
    LET fits == {i \in DOMAIN bands : x <= bands[i][1]}
    IN  IF x = NA THEN NA ELSE bands[IF fits = {} THEN Len(bands) ELSE Min(fits)][2]

Present(values) == SelectSeq(values, Known)

PercentileRank(x, population) ==
    LET peers == {i \in DOMAIN population : Known(population[i])}
        below == Cardinality({i \in peers : population[i] < x})
        equal == Cardinality({i \in peers : population[i] = x})
    IN  IF x = NA \/ Cardinality(peers) < 2 THEN NA
        ELSE Quot(100 * below + 50 * equal, Cardinality(peers))

\* The k-th of the values of a function, the least first.
Nth(values, k) ==
    Min({v \in Range(values) : Cardinality({i \in DOMAIN values : values[i] <= v}) >= k})

Ordered(values) == [k \in 1..Cardinality(DOMAIN values) |-> Nth(values, k)]

Median(values) ==
    LET size == Cardinality(DOMAIN values)
        mid == size \div 2
    IN  IF size % 2 = 1 THEN Nth(values, mid + 1)
        ELSE Quot(Nth(values, mid) + Nth(values, mid + 1), 2)
==============================================================================
