------------------------------ MODULE Strategies ------------------------------
(***************************************************************************)
(* Backtest strategies (src/backend/backtesting/strategies.py): a strategy *)
(* ranks the universe by what a view answers it (seen), and the ranking    *)
(* becomes target weights, in hundredths of a percent of the equity.  A    *)
(* strategy is a record                                                    *)
(*   kind, top_n, min_score (NA: none), score_weighted, max_weight,        *)
(*   invested, rebalance                                                   *)
(***************************************************************************)
EXTENDS Analysis, PointInTime

CONSTANTS
    Shares,         \* shares outstanding of every name
    Volatility,     \* volatility of every name, in percent of a year
    MomentumSkip,   \* the latest bars momentum leaves out
    MomentumBars    \* the bars momentum looks back

ASSUME MomentumAssumption == MomentumSkip \in Nat /\ MomentumBars \in Nat \ {0}

RsiMin == 45
RsiMax == 78

\* Best score first; equal scores keep the order of the universe.
Ranking(universe, score) ==
    LET known == {i \in DOMAIN universe : Known(score[universe[i]])}
        order == Best([i \in known |-> score[universe[i]]])
    IN  [k \in DOMAIN order |-> [name |-> universe[order[k]], score |-> score[universe[order[k]]]]]

\* The snapshot of what was published, at the last close.
Statements(seen, n) ==
    IF seen.periods[n] = <<>> \/ seen.price[n] = NA
    THEN AnalyzeFundamentals(<<>>, NA, NA, <<>>, <<>>, NA)
    ELSE AnalyzeFundamentals(seen.periods[n], seen.price[n], Shares[n], <<>>, <<>>, NA)

Read(seen, n) == AnalyzeTechnical(seen.series[n], <<>>, Volatility[n])

FundamentalLong(seen, n) == Statements(seen, n).score.value

\* The return over the lookback, without the latest bars.
Momentums(seen, n) ==
    LET closes == Column(seen.series[n], "close")
        size == Len(closes)
        recent == closes[IF size > MomentumSkip THEN size - MomentumSkip ELSE size]
        past == closes[Max({1, size - MomentumBars - MomentumSkip + 1})]
    IN  IF size = 0 \/ size < MomentumBars \div 2 THEN NA
        ELSE IF past <= 0 THEN NA ELSE Quot(100 * (recent - past), past)

\* Above both averages, with a relative strength index that is neither weak
\* nor overbought.
Trending(t, bars) ==
    /\ bars >= LongWindow /\ ~ t.insufficient
    /\ Known(t.price) /\ Known(t.mid) /\ Known(t.long)
    /\ t.price > t.mid /\ t.price > t.long
    /\ t.rsi \in RsiMin..RsiMax

TechnicalSwing(seen, n) ==
    The({IF Trending(t, Len(seen.series[n])) THEN t.score.value ELSE NA : t \in {Read(seen, n)}})

\* What the factor model compares: the technical read and the statements.
Exposures(seen, n) ==
    The({FactorMetrics([bars |-> seen.series[n]], t, s.metrics) :
            t \in {Read(seen, n)}, s \in {Statements(seen, n)}})

MultiFactor(seen, universe) ==
    The({[n \in Range(universe) |-> ScoreQuant(metrics, n).value] :
            metrics \in {Evaluated([n \in Range(universe) |-> Exposures(seen, n)])}})

Scores(kind, seen, universe) ==
    CASE kind = "fundamental_long" -> [n \in Range(universe) |-> FundamentalLong(seen, n)]
      [] kind = "momentum" -> [n \in Range(universe) |-> Momentums(seen, n)]
      [] kind = "technical_swing" -> [n \in Range(universe) |-> TechnicalSwing(seen, n)]
      [] kind = "multi_factor" -> MultiFactor(seen, universe)
      [] kind = "buy_and_hold" -> [n \in Range(universe) |-> IF Known(seen.price[n]) THEN 1 ELSE NA]

Select(kind, seen, universe) ==
    The({Ranking(universe, score) : score \in {Evaluated(Scores(kind, seen, universe))}})

------------------------------------------------------------------------------
(* Weights.                                                                *)

Capped(weights, cap) == [n \in DOMAIN weights |-> Min({weights[n], cap})]

\* Renormalising after the cap instead of redistributing undoes the cap.
Renormalise(weights, cap) ==
    LET capped == Capped(weights, cap)
    IN  [n \in DOMAIN weights |-> (capped[n] * SumFunction(weights)) \div SumFunction(capped)]

\* The weight above the cap goes to those below it, by the room they have;
\* when there is none it stays in cash.
Redistribute(weights, cap) ==
    LET capped == Capped(weights, cap)
        room == [n \in DOMAIN weights |-> cap - capped[n]]
        excess == SumFunction(weights) - SumFunction(capped)
        available == SumFunction(room)
    IN  IF excess = 0 \/ available = 0 THEN capped
        ELSE [n \in DOMAIN weights |-> capped[n] + (excess * room[n]) \div available]

Rounds == 10

\* Equal shares, or shares by the points above the least selected score.
RawShares(strategy, selected) ==
    LET floor == Min({c.score : c \in Range(selected)})
        points == [i \in DOMAIN selected |->
                      IF strategy.score_weighted THEN selected[i].score - floor + 1 ELSE 1]
        place(n) == CHOOSE i \in DOMAIN selected : selected[i].name = n
    IN  [n \in {c.name : c \in Range(selected)} |->
            (points[place(n)] * strategy.invested) \div SumFunction(points)]

\* The names selected with their weights, best first.
Weighted(strategy, selected) ==
    LET final == FoldLeft(LAMBDA w, round : Evaluated(Redistribute(w, strategy.max_weight)),
                          Evaluated(RawShares(strategy, selected)), [i \in 1..Rounds |-> i])
        weights == [i \in DOMAIN selected |->
                        [name |-> selected[i].name, weight |-> final[selected[i].name]]]
    IN  IF selected = <<>> THEN <<>> ELSE Keep(weights, LAMBDA t : t.weight > 0)

\* Target weights of a ranking: the names that score enough, the best of them.
TargetWeights(strategy, ranking) ==
    LET enough == IF strategy.min_score = NA THEN ranking
                  ELSE Keep(ranking, LAMBDA c : c.score >= strategy.min_score)
    IN  Weighted(strategy, SubSeq(enough, 1, Min({strategy.top_n, Len(enough)})))

Targets(strategy, v, universe) ==
    The({TargetWeights(strategy, ranking) :
            ranking \in {Select(strategy.kind, Answers(v), universe)}})
==============================================================================
