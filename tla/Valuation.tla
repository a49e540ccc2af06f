------------------------------- MODULE Valuation ------------------------------
(***************************************************************************)
(* The fair value of a share (src/backend/analytics/valuation.py) and the  *)
(* inputs the stock page gives it (src/backend/api/routes_gmg.py).  Rates  *)
(* are in percent, values per share in whole units of the price.           *)
(***************************************************************************)
EXTENDS Scoring

RiskFree == 22
EquityRiskPremium == 7
TerminalGrowth == 5
ForecastYears == 5

CostOfEquity(beta) == RiskFree + Quot(beta * EquityRiskPremium, 100)

\* Why no discounted cash flow can be computed.
DcfRefused(a) ==
    \/ a.fcf = NA
    \/ a.shares \in {0, NA}
    \/ a.fcf <= 0
    \/ a.rate <= 0
    \/ a.terminal_growth >= a.rate

Discounted(x, years, rate) ==
    FoldLeft(LAMBDA v, y : Quot(100 * v, 100 + rate), x, [y \in 1..years |-> y])

\* Growth fades in a line from its start to the terminal rate.
Growth(a, year, years) ==
    a.growth + Quot((a.terminal_growth - a.growth) * (year - 1), Max({years - 1, 1}))

ExplicitYears(a) == Clamp(1, a.years, 15)

\* A year's cash flow, and the present value of those so far.
Forecast(a, acc, year) ==
    LET fcf == Quot(acc.fcf * (100 + Growth(a, year, ExplicitYears(a))), 100)
    IN  [fcf |-> fcf, sum |-> acc.sum + Discounted(fcf, year, a.rate)]

RunDcf(a) ==
    LET years == ExplicitYears(a)
        explicit == FoldLeft(LAMBDA acc, year : Forecast(a, acc, year),
                             [fcf |-> a.fcf, sum |-> 0], [y \in 1..years |-> y])
        terminal == Quot(explicit.fcf * (100 + a.terminal_growth), a.rate - a.terminal_growth)
        equity == explicit.sum + Discounted(terminal, years, a.rate) - a.net_debt
    IN  IF DcfRefused(a) \/ Quot(equity, a.shares) <= 0 THEN NA ELSE Quot(equity, a.shares)

\* Every cell of the grid is the model run again.
SensitivityGrid(a, steps) ==
    [r \in steps, g \in steps |->
        RunDcf([a EXCEPT !.rate = @ + r, !.terminal_growth = @ + g])]

\* A multiple, in hundredths, times the figure per share it is a multiple of.
Implied(per_share, multiple) ==
    IF per_share = NA \/ multiple = NA \/ per_share <= 0 \/ multiple <= 0 THEN NA
    ELSE Quot(per_share * multiple, 100)

MultiplesValuation(per, peer, own_pe) ==
    [peer_pe |-> Implied(per.pe, peer.pe), own_pe |-> Implied(per.pe, own_pe),
     peer_pb |-> Implied(per.pb, peer.pb)]

Unvalued == [fair |-> NA, low |-> NA, high |-> NA, methods |-> 0, withheld |-> FALSE]

\* Two parts in five for the cash flow, the rest shared by the multiples; no
\* figure is published when the methods differ by more than two and a half.
BlendedValuation(dcf, multiples) ==
    LET usable == {m \in DOMAIN multiples : Known(multiples[m]) /\ multiples[m] > 0}
        n == Cardinality(usable)
        values == {multiples[m] : m \in usable} \cup (IF Known(dcf) THEN {dcf} ELSE {})
        methods == n + (IF Known(dcf) THEN 1 ELSE 0)
        each == Quot(MapThenSumSet(LAMBDA m : multiples[m], usable), Max({n, 1}))
        fair == CASE n = 0 -> dcf
                  [] n > 0 /\ dcf = NA -> each
                  [] n > 0 /\ Known(dcf) -> Quot(40 * dcf + 60 * each, 100)
        torn == methods > 1 /\ 2 * Max(values) > 5 * Min(values)
    IN  IF values = {} THEN Unvalued
        ELSE [fair |-> IF torn THEN NA ELSE fair, low |-> Min(values), high |-> Max(values),
              methods |-> methods, withheld |-> torn]

\* The median of the multiples the company had, of three sensible ones or more.
OwnPeMedian(history) ==
    LET sane == {i \in DOMAIN history : history[i] > 0 /\ history[i] < 10000}
    IN  IF Cardinality(sane) < 3 THEN NA ELSE Median([i \in sane |-> history[i]])

\* What the page values a name by: m, its metrics; peers, the multiples of its
\* sector; the figure per share is the price divided by the guarded multiple.
ValuationFor(m, statement, shares, price, peers, history) ==
    LET start == IF Known(m.fcf_growth) THEN m.fcf_growth ELSE m.revenue_growth
        net_debt == Plus(statement.debt, IF Known(statement.cash) THEN -statement.cash ELSE NA)
        fcf == IF Known(statement.fcf) THEN statement.fcf
               ELSE IF Known(statement.ocf) /\ Known(statement.capex)
                    THEN statement.ocf - Magnitude(statement.capex) ELSE NA
        per(multiple) == IF price = NA \/ multiple = NA \/ multiple <= 0 THEN NA
                         ELSE Quot(100 * price, multiple)
        median(values) == IF DOMAIN values = {} THEN NA ELSE Median(values)
        dcf == RunDcf([fcf |-> fcf, shares |-> shares,
                       net_debt |-> IF Known(net_debt) THEN net_debt ELSE 0,
                       growth |-> IF Known(start) THEN Clamp(-25, start, 30) ELSE 10,
                       rate |-> CostOfEquity(100), terminal_growth |-> TerminalGrowth,
                       years |-> ForecastYears])
    IN  BlendedValuation(dcf, MultiplesValuation([pe |-> per(m.pe), pb |-> per(m.pb)],
                [pe |-> median(peers.pe), pb |-> median(peers.pb)], OwnPeMedian(history)))
==============================================================================
