------------------------------- MODULE AlphaScore -----------------------------
(***************************************************************************)
(* The master score of a name (src/backend/analytics/master_score.py):     *)
(* seven parts, each a score of its own, and what stale data does to the   *)
(* confidence in it.                                                       *)
(***************************************************************************)
EXTENDS Scoring

CatalystWeight == [MERGER |-> 95, EARNINGS |-> 75, BUYBACK |-> 85, DIVIDEND |-> 70, CONTRACT |-> 78,
                   CAPITAL_ACTION |-> 65, RESTRUCTURING |-> 60, MANAGEMENT_CHANGE |-> 55,
                   REGULATORY |-> 45, GOVERNANCE |-> 45, MISC |-> 40]

CatalystHorizon == 120

\* Events of the last 120 days: an event loses 60 parts in a hundred of its
\* weight on the way to the horizon.
Relevant(events) == SelectSeq(events, LAMBDA e : e.age \in 0..CatalystHorizon)

Contribution(e) ==
    Quot(CatalystWeight[e.kind] * (6 + Clamp(1, e.importance, 5)) * (1000 - 5 * e.age), 10000)

\* The strongest event counts, and a quarter of each of the next two.
ScoreCatalysts(events) ==
    LET relevant == Relevant(events)
        strongest == SortSeq([i \in DOMAIN relevant |-> Contribution(relevant[i])],
                             LAMBDA a, b : a > b)
        further == SubSeq(strongest, 2, Min({3, Len(strongest)}))
        total == strongest[1] + FoldSeq(LAMBDA x, y : x \div 4 + y, 0, further)
    IN  BuildScore([events |-> 100],
                   [events |-> IF strongest = <<>> THEN NA ELSE Clamp(0, total, 100)])

RiskWeights == [volatility |-> 25, drawdown |-> 15, liquidity |-> 20, leverage |-> 20,
                data |-> 10, event |-> 10]

\* Risk of one name, a higher score for a lower risk.  Turnover in thousands.
ScoreRisk(i) ==
    BuildScore(RiskWeights,
        [volatility |-> Linear(i.volatility, 80, 15),
         drawdown |-> Linear(i.drawdown, -60, -5),
         liquidity |-> Linear(i.turnover, 200, 20000),
         leverage |-> Blend(<<50, 30, 20>>,
                        <<Linear(i.debt_to_equity, 300, 10), Linear(i.net_debt_to_ebitda, 500, 0),
                          Linear(i.interest_coverage, 100, 1000)>>),
         data |-> Linear(i.data_age, 540, 30),
         event |-> Linear(i.days_to_earnings, 0, 45)])

AlphaWeights == [fundamental |-> 30, technical |-> 20, quantitative |-> 15, catalysts |-> 10,
                 quality |-> 10, risk |-> 10, sentiment |-> 5]

Stale(ages) == {d \in DOMAIN ages : Severity(d, ages[d]) # "fresh"}

\* Only the oldest data is asked whether it is critically stale.
OldestCritical(ages) ==
    \E d \in Stale(ages) :
        /\ \A e \in Stale(ages) : ages[e] <= ages[d]
        /\ Severity(d, ages[d]) = "critical"

\* Critically stale data takes the confidence down.
Aged(result, ages) ==
    [value |-> result.value, coverage |-> result.coverage, parts |-> result.parts,
     confidence |-> IF Known(result.value) /\ OldestCritical(ages) /\ result.confidence # "UNVERIFIED"
                    THEN "LOW" ELSE result.confidence,
     stale |-> Stale(ages) # {}]

\* sentiment: the mood of the news in -100..100; ages: of prices and statements.
ComputeAlphaScore(fundamental, technical, quant, events, risk, sentiment, ages) ==
    LET quality == IF "quality" \in DOMAIN fundamental.parts THEN fundamental.parts["quality"] ELSE NA
        parts == [fundamental |-> fundamental.value, technical |-> technical.value,
            quantitative |-> quant.value, catalysts |-> ScoreCatalysts(events).value,
            quality |-> quality, risk |-> ScoreRisk(risk).value,
            sentiment |-> IF sentiment = NA THEN NA ELSE Clamp(0, (sentiment + 100) \div 2, 100)]
    IN  The({Aged(BuildScore(AlphaWeights, p), ages) : p \in {parts}})
==============================================================================
