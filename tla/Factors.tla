-------------------------------- MODULE Factors -------------------------------
(***************************************************************************)
(* The cross-sectional factor model (src/backend/analytics/quant.py).  A   *)
(* universe gives every name its metrics; a factor scores a name by how    *)
(* far its metrics are from the universe's, in hundredths of a standard    *)
(* deviation.                                                              *)
(***************************************************************************)
EXTENDS Scoring

\* Which metrics feed a factor: whether higher is better, and the weight.
FactorInputs ==
    [value |-> [pe |-> <<FALSE, 30>>, pb |-> <<FALSE, 20>>,
                ev_ebitda |-> <<FALSE, 25>>, fcf_yield |-> <<TRUE, 25>>],
     momentum |-> [quarter |-> <<TRUE, 25>>, month |-> <<FALSE, 10>>],
     quality |-> [roe |-> <<TRUE, 30>>, roic |-> <<TRUE, 30>>, net_margin |-> <<TRUE, 20>>,
                  debt_to_equity |-> <<FALSE, 20>>],
     growth |-> [revenue_growth |-> <<TRUE, 35>>, eps_growth |-> <<TRUE, 35>>],
     liquidity |-> [turnover |-> <<TRUE, 70>>],
     volatility |-> [volatility |-> <<FALSE, 60>>]]

QuantWeights == [value |-> 20, momentum |-> 25, quality |-> 20, growth |-> 15,
                 liquidity |-> 10, volatility |-> 10]

Ceil(n, d) == (n + d - 1) \div d

\* With five names or more the ends are clipped, by one name at least.
Winsorize(values) ==
    LET s == Ordered(values)
        n == Len(s)
        trim == Min({Ceil(5 * n, 100), (n - 1) \div 2})
    IN  IF n < 5 THEN values
        ELSE [i \in 1..n |-> Clamp(s[1 + trim], values[i], s[n - trim])]

\* The whole part of a square root.
Root(x) == CHOOSE r \in 0..30000 : r * r <= x /\ (r + 1) * (r + 1) > x

\* values: name -> value.  Fewer than three values say nothing, and neither
\* do values that are all the same.
Zscores(values, higherIsBetter) ==
    LET names == SetToSeq({n \in DOMAIN values : Known(values[n])})
        clipped == Winsorize([i \in DOMAIN names |-> values[names[i]]])
        n == Len(names)
        sum == FoldSeq(LAMBDA x, y : x + y, 0, clipped)
        off(i) == n * clipped[i] - sum      \* n times how far i is from the mean
        spread == Root(MapThenSumSet(LAMBDA i : off(i) * off(i), 1..n) \div Max({1, n - 1}))
        at(t) == CHOOSE i \in 1..n : names[i] = t
    IN  [t \in DOMAIN values |->
            CASE n < 3 \/ values[t] = NA -> NA
              [] n >= 3 /\ values[t] # NA /\ spread = 0 -> 0
              [] n >= 3 /\ values[t] # NA /\ spread # 0 ->
                    (IF higherIsBetter THEN 1 ELSE -1) * Quot(100 * off(at(t)), spread)]

\* Two and a half deviations are the end of the scale.
ZscoreToScore(z) == IF z = NA THEN NA ELSE 50 + Quot(Clamp(-250, z, 250), 5)

\* One name's exposure to every factor, of the metrics the universe has.
FactorExposures(universe, name) ==
    [factor \in DOMAIN FactorInputs |->
        LET inputs == FactorInputs[factor]
            z == [m \in DOMAIN inputs |->
                    Zscores([t \in DOMAIN universe |-> universe[t][m]], inputs[m][1])[name]]
        IN  ZscoreToScore(Blend([m \in DOMAIN inputs |-> inputs[m][2]], z))]

ScoreQuant(universe, name) == BuildScore(QuantWeights, FactorExposures(universe, name))
==============================================================================
