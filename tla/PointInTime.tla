------------------------------ MODULE PointInTime -----------------------------
(***************************************************************************)
(* The point-in-time view (src/backend/backtesting/point_in_time.py): what *)
(* is stored, seen from a day.  A view is a record                         *)
(*   bars         name -> (day -> stored bar)                              *)
(*   statements   name -> (period -> stored statement)                     *)
(*   as_of        the day                                                  *)
(* Left out: the lookback of a series, longer than the days there are, and *)
(* the refusal to serve a day past the view's, which nobody asks for.      *)
(***************************************************************************)
EXTENDS Scoring

View(bars, statements, day) == [bars |-> bars, statements |-> statements, as_of |-> day]

\* The bars up to the day.
BarsSeen(v, n) == Restrict(v.bars[n], {d \in DOMAIN v.bars[n] : d <= v.as_of})

\* The last close on or before the day: an old one when the name has not traded,
\* the adjusted one when the bar has no other.
PriceOn(v, n) ==
    LET seen == BarsSeen(v, n)
        bar == seen[Max(DOMAIN seen)]
    IN  IF seen = <<>> THEN NA ELSE IF Known(bar.close) THEN bar.close ELSE bar.adjusted

Tradeable(v, n) == Known(PriceOn(v, n))

\* Bars in their order, the oldest first, with the adjusted close for close.
SeriesOf(seen) ==
    LET days == InOrder(DOMAIN seen, LAMBDA a, b : a < b)
        bar(d) == seen[d]
    IN  Evaluated([i \in DOMAIN days |->
            [bar(days[i]) EXCEPT !.close = IF Known(bar(days[i]).adjusted)
                                           THEN bar(days[i]).adjusted ELSE @]])

PriceSeries(v, n) == SeriesOf(BarsSeen(v, n))

\* Statements, the latest period first.
Newest(known) ==
    LET newest == SetToSortSeq(DOMAIN known, LAMBDA p, q : known[p].end > known[q].end)
    IN  [i \in DOMAIN newest |-> known[newest[i]]]

\* Serving a statement as soon as its period is over.
PeriodsEnded(v, n) ==
    Restrict(v.statements[n], {p \in DOMAIN v.statements[n] : v.statements[n][p].end <= v.as_of})

\* Statements published by the day.  One without a date of publication is never
\* served.
PeriodsPublished(v, n) ==
    LET s == v.statements[n]
    IN  Restrict(s, {p \in DOMAIN s : Known(s[p].available) /\ s[p].available <= v.as_of})

FinancialPeriods(v, n) == Newest(PeriodsPublished(v, n))

\* What the view answers a strategy, of every name.
Answers(v) ==
    [price   |-> [n \in DOMAIN v.bars |-> PriceOn(v, n)],
     series  |-> [n \in DOMAIN v.bars |-> PriceSeries(v, n)],
     periods |-> [n \in DOMAIN v.statements |-> FinancialPeriods(v, n)]]

\* The days on which anything traded, and those of them that open a period of
\* so many days (a week, a month): the first trading day in it.
TradingCalendar(bars, start, end) ==
    InOrder({d \in UNION {DOMAIN bars[n] : n \in DOMAIN bars} : start <= d /\ d <= end},
            LAMBDA a, b : a < b)

RebalanceDates(calendar, period) ==
    LET key(d) == (d - 1) \div period
    IN  {calendar[i] : i \in {j \in DOMAIN calendar :
                                 j = 1 \/ key(calendar[j]) # key(calendar[j - 1])}}
==============================================================================
