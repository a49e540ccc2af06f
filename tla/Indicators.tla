------------------------------ MODULE Indicators ------------------------------
(***************************************************************************)
(* Technical indicators over a sequence of values, some of which are       *)
(* missing (src/backend/analytics/indicators.py).  Each operator gives the *)
(* sequence of the indicator's readings, NA where there is none.  Left     *)
(* out: what needs roots or logarithms (the bands, the volatility).        *)
(***************************************************************************)
EXTENDS Scoring

Column(bars, f) == [i \in DOMAIN bars |-> bars[i][f]]

Combine(op(_, _), a, b) ==
    [i \in 1..Min({Len(a), Len(b)}) |-> IF Known(a[i]) /\ Known(b[i]) THEN op(a[i], b[i]) ELSE NA]

\* The mean of the last `period' values; a gap ends the window.
Sma(values, period) ==
    [i \in DOMAIN values |->
        LET window == SubSeq(values, i - period + 1, i)
        IN  IF i >= period /\ Present(window) = window
            THEN Quot(SumFunction(window), period) ELSE NA]

\* A reading carried from value to value: the mean of the first `period' values,
\* then k parts in n of the way to each next one.  Missing values are passed over.
Carried(c, acc, x) ==
    LET seed == Append(acc.seed, x)
        now == CASE x = NA -> acc.now
                 [] x # NA /\ acc.now # NA -> acc.now + Quot(c.k * (x - acc.now), c.n)
                 [] x # NA /\ acc.now = NA /\ Len(seed) = c.period ->
                        Quot(SumFunction(seed), c.period)
                 [] x # NA /\ acc.now = NA /\ Len(seed) # c.period -> NA
    IN  [seed |-> IF x = NA \/ Known(acc.now) THEN acc.seed ELSE seed,
         now |-> now,
         out |-> Append(acc.out, IF x = NA THEN NA ELSE now)]

Smoothed(values, c) ==
    FoldLeft(LAMBDA acc, x : Carried(c, acc, x), [seed |-> <<>>, now |-> NA, out |-> <<>>], values).out

Ema(values, period) == Smoothed(values, [period |-> period, k |-> 2, n |-> period + 1])
Wilder(values, period) == Smoothed(values, [period |-> period, k |-> 1, n |-> period])

\* From each present value to the next present one.
Changes(values) ==
    LET next(acc, x) ==
            [last |-> IF Known(x) THEN x ELSE acc.last,
             out |-> Append(acc.out, IF Known(x) /\ Known(acc.last) THEN x - acc.last ELSE NA)]
    IN  FoldLeft(next, [last |-> NA, out |-> <<>>], values).out

RsiValue(gain, loss) ==
    IF loss = 0 THEN (IF gain > 0 THEN 100 ELSE 50) ELSE Quot(100 * gain, gain + loss)

\* Changes are scaled up, so that small averages do not vanish.
Rsi(values, period) ==
    LET changes == Changes(values)
        scaled(sign) == [i \in DOMAIN values |->
                            IF Known(changes[i]) THEN Max({0, 100 * sign * changes[i]}) ELSE NA]
    IN  Combine(RsiValue, Wilder(scaled(1), period), Wilder(scaled(-1), period))

Macd(values, fast, slow) == Combine(LAMBDA f, s : f - s, Ema(values, fast), Ema(values, slow))
MacdSignal(values, fast, slow, signal) == Ema(Macd(values, fast, slow), signal)

\* A bar is a record; the range reaches back to the close before it.
TrueRange(bars) ==
    [i \in DOMAIN bars |->
        LET b == bars[i]
            past == IF i = 1 THEN NA ELSE bars[i - 1].close
        IN  CASE b.high = NA \/ b.low = NA -> NA
              [] b.high # NA /\ b.low # NA /\ past = NA -> b.high - b.low
              [] b.high # NA /\ b.low # NA /\ past # NA ->
                    Max({b.high - b.low, Magnitude(b.high - past), Magnitude(b.low - past)})]

Atr(bars, period) == Wilder(TrueRange(bars), period)

\* The return over `period' bars, in percent.
Momentum(values, period) ==
    [i \in DOMAIN values |->
        IF i <= period \/ values[i] = NA \/ values[i - period] = NA \/ values[i - period] <= 0
        THEN NA ELSE Quot(100 * (values[i] - values[i - period]), values[i - period])]

RelativeStrength(values, benchmark, period) ==
    Combine(LAMBDA s, b : s - b, Momentum(values, period), Momentum(benchmark, period))

LastValid(values) ==
    LET present == {i \in DOMAIN values : Known(values[i])}
    IN  IF present = {} THEN NA ELSE values[Max(present)]

\* Swings: where a high or a low is that no bar `wing' bars around goes beyond.
Swings(values, wing, extreme(_)) ==
    {i \in wing + 1 .. Len(values) - wing :
        /\ Known(values[i])
        /\ values[i] = extreme(Range(Present(SubSeq(values, i - wing, i + wing))))}

\* Levels within a fiftieth of a cluster's centre join it; the levels are the
\* centres of the three clusters of the most swings.
Joined(clusters, x) ==
    LET c == Last(clusters)
    IN  IF clusters # <<>> /\ 50 * Magnitude(x * Len(c) - SumFunction(c)) <= SumFunction(c)
        THEN Append(Front(clusters), Append(c, x)) ELSE Append(clusters, <<x>>)
Clusters(levels) == FoldLeft(LAMBDA clusters, x : Joined(clusters, x), <<>>, Ordered(levels))

Strongest(levels) ==
    LET clusters == Clusters(levels)
        stronger(i) == {j \in DOMAIN clusters :
                            \/ Len(clusters[j]) > Len(clusters[i])
                            \/ Len(clusters[j]) = Len(clusters[i]) /\ j < i}
        kept == {i \in DOMAIN clusters : Cardinality(stronger(i)) < 3}
    IN  {Quot(SumFunction(clusters[i]), Len(clusters[i])) : i \in kept}

\* Levels below and above the last close, from the swings around them.
SupportResistance(bars, wing) ==
    LET highs == Column(bars, "high")
        lows == Column(bars, "low")
        last == LastValid(Column(bars, "close"))
        above == {i \in Swings(highs, wing, Max) : highs[i] > last}
        below == {i \in Swings(lows, wing, Min) : lows[i] < last}
        unread == Len(bars) < 2 * wing + 1 \/ last = NA
    IN  [supports |-> IF unread THEN {} ELSE Strongest([i \in below |-> lows[i]]),
         resistances |-> IF unread THEN {} ELSE Strongest([i \in above |-> highs[i]])]
==============================================================================
