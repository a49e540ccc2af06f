----------------------------- MODULE Fundamentals -----------------------------
(***************************************************************************)
(* The fundamental engine and the valuation calculator                     *)
(* (src/backend/analytics/fundamental.py, valuation.py).  A statement is a *)
(* record of reported figures, each of which may be missing.  Left out:    *)
(* the growth rate over several years, and so all but two statements; the  *)
(* metrics nothing is computed from.                                       *)
(***************************************************************************)
EXTENDS Scoring

\* Units a statement may be in, when they are not those of the price.
Units == {1000, 1000000}

\* What the statement's figures must be multiplied by: a factor is found when
\* the price of a unit of revenue would be between a fiftieth and 500 times
\* it.  (Bound: billions never occur, numbers stay small.)
DetectScale(cap, revenue, equity) ==
    LET reference == IF Known(revenue) /\ revenue > 0 THEN revenue ELSE equity
        fits == {f \in Units : 50 * cap >= reference * f /\ (cap + 499) \div 500 <= reference * f}
    IN  IF cap = NA \/ cap <= 0 \/ reference = NA \/ reference <= 0 \/ fits = {}
        THEN 1 ELSE Min(fits)

\* The range a multiple of a listed company can be in, in hundredths.
Plausible == [pe |-> <<10, 100000>>, pb |-> <<1, 20000>>, ev_ebitda |-> <<10, 50000>>]

Withhold(name, x) ==
    IF Known(x) /\ (x < Plausible[name][1] \/ x > Plausible[name][2]) THEN NA ELSE x

Average(a, b) == IF Known(a) /\ Known(b) THEN Quot(a + b, 2) ELSE a
\* The sum of what is present.
SumAvailable(values) ==
    IF Present(values) = <<>> THEN NA ELSE FoldSeq(LAMBDA x, y : x + y, 0, Present(values))

\* The metrics of the latest of one or two statements, newest first.
ComputeMetrics(periods, price, shares) ==
    LET s == periods[1]
        grown(f) == IF Len(periods) < 2 THEN NA ELSE SafeGrowth(s[f], periods[2][f])
        average(f) == Average(s[f], IF Len(periods) < 2 THEN NA ELSE periods[2][f])
        margin(x) == SafeDiv(x, s.revenue)
        debt == Plus(s.debt, IF Known(s.cash) THEN -s.cash ELSE NA)
        capital == SumAvailable(<<s.equity, s.debt, IF Known(s.cash) THEN -s.cash ELSE NA>>)
        nopat == IF Known(s.operating) THEN Quot(775 * s.operating, 1000) ELSE NA
        fcf == IF Known(s.fcf) THEN s.fcf
               ELSE IF Known(s.ocf) /\ Known(s.capex) THEN s.ocf - Magnitude(s.capex) ELSE NA
        cap == IF price \in {0, NA} \/ shares \in {0, NA} THEN NA ELSE price * shares
        scale == DetectScale(cap, s.revenue, s.equity)
        scaled(x) == IF Known(x) THEN scale * x ELSE NA
        paid == Magnitude(s.dividends)
    IN  [revenue_growth |-> grown("revenue"), ebitda_growth |-> grown("ebitda"),
         eps_growth |-> grown("eps"), fcf_growth |-> grown("fcf"),
         gross_margin |-> margin(s.gross), ebitda_margin |-> margin(s.ebitda),
         operating_margin |-> margin(s.operating), net_margin |-> margin(s.net),
         roe |-> PositiveDiv(s.net, average("equity")),
         roic |-> PositiveDiv(nopat, capital),
         debt_to_equity |-> PositiveDiv(s.debt, s.equity),
         net_debt_to_ebitda |-> PositiveDiv(debt, s.ebitda),
         current_ratio |-> SafeDiv(s.current_assets, s.current_liabilities),
         interest_coverage |-> SafeDiv(s.operating, Magnitude(s.interest)),
         fcf_margin |-> margin(fcf),
         cash_conversion |-> PositiveDiv(s.ocf, s.net),
         pe |-> Withhold("pe", PositiveDiv(price, s.eps)),
         pb |-> Withhold("pb", PositiveDiv(cap, scaled(s.equity))),
         ev_ebitda |-> Withhold("ev_ebitda", PositiveDiv(Plus(cap, scaled(debt)), scaled(s.ebitda))),
         fcf_yield |-> SafeDiv(scaled(fcf), cap),
         dividend_yield |-> SafeDiv(scaled(paid), cap),
         payout_ratio |-> PositiveDiv(paid, s.net)]

DebtBands == << <<20, 100>>, <<50, 88>>, <<100, 72>>, <<150, 52>>, <<250, 28>>, <<400, 10>> >>
NetDebtBands == << <<0, 100>>, <<100, 90>>, <<200, 75>>, <<300, 55>>, <<400, 32>>, <<500, 15>> >>

FundamentalWeights == [valuation |-> 25, quality |-> 18, growth |-> 14, profitability |-> 14,
                       balance_sheet |-> 10, cash_flow |-> 10, dividend |-> 5, catalysts |-> 4]

\* Cheaper than its peers scores higher.
CheapRank(pe, peers) ==
    LET rank == PercentileRank(pe, peers) IN IF Known(rank) THEN 100 - rank ELSE NA

ScoreFundamentals(m, peers, history, catalysts) ==
    LET conversion == Linear(m.cash_conversion, 30, 140)
        margin == Linear(m.fcf_margin, -5, 20)
        gross == Linear(m.gross_margin, 5, 55)
        paying == Known(m.dividend_yield)
    IN  BuildScore(FundamentalWeights,
        [valuation |-> Blend(<<40, 35, 25, 30, 30, 20>>,
            <<Linear(m.pe, 3000, 500), CheapRank(m.pe, peers),
              IF Len(history) >= 3 THEN CheapRank(m.pe, history) ELSE NA,
              Linear(m.ev_ebitda, 1800, 300), Linear(m.fcf_yield, 0, 18), Linear(m.pb, 400, 50)>>),
         quality |-> Blend(<<35, 35, 15, 15>>,
            <<Linear(m.roe, 0, 30), Linear(m.roic, 0, 25), gross, conversion>>),
         growth |-> Blend(<<30, 20, 25>>,
            <<Linear(m.revenue_growth, -10, 35), Linear(m.ebitda_growth, -15, 40),
              Linear(m.eps_growth, -20, 45)>>),
         profitability |-> Blend(<<35, 30, 20, 15>>,
            <<Linear(m.net_margin, 0, 25), Linear(m.operating_margin, 0, 30),
              Linear(m.ebitda_margin, 2, 35), gross>>),
         balance_sheet |-> Blend(<<35, 35, 15, 15>>,
            <<Bands(m.debt_to_equity, DebtBands), Bands(m.net_debt_to_ebitda, NetDebtBands),
              Linear(m.current_ratio, 60, 220), Linear(m.interest_coverage, 100, 1200)>>),
         cash_flow |-> Blend(<<40, 35, 25>>,
            <<margin, conversion, Linear(m.fcf_growth, -25, 35)>>),
         dividend |-> Blend(<<55, 20, 25>>,
            <<Linear(m.dividend_yield, 0, 10), IF paying THEN margin ELSE NA,
              IF paying THEN Linear(m.payout_ratio, 110, 30) ELSE NA>>),
         catalysts |-> catalysts])

AnalyzeFundamentals(periods, price, shares, peers, history, catalysts) ==
    IF periods = <<>> THEN [insufficient |-> TRUE, metrics |-> <<>>, score |-> NoResult]
    ELSE The({[insufficient |-> FALSE, metrics |-> m,
               score |-> ScoreFundamentals(m, peers, history, catalysts)] :
                    m \in {ComputeMetrics(periods, price, shares)}})
==============================================================================
