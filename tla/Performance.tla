------------------------------ MODULE Performance -----------------------------
(***************************************************************************)
(* What a backtest is judged by (src/backend/backtesting/metrics.py).  A   *)
(* curve is a sequence of [day, value]; returns are in percent.  Of the    *)
(* ratios that need a square root or a power only when they are given is   *)
(* kept.                                                                   *)
(***************************************************************************)
EXTENDS Scoring

CONSTANT MinReturns     \* fewer returns give no ratio

Values(curve) == [i \in DOMAIN curve |-> curve[i].value]

\* From one value to the next, where the first is positive.
Returns(values) ==
    LET from == SelectSeq([i \in 1..(Len(values) - 1) |-> i], LAMBDA i : values[i] > 0)
    IN  [j \in DOMAIN from |-> Quot(100 * (values[from[j] + 1] - values[from[j]]), values[from[j]])]

TotalReturn(values) ==
    IF Len(values) < 2 \/ values[1] = 0 THEN NA
    ELSE Quot(100 * (values[Len(values)] - values[1]), values[1])

\* The worst fall from a peak, and the most values in a row without a new one.
Drawdown(values) ==
    LET peak(i) == Max(Range(SubSeq(values, 1, i)))
        under(i) == i - Min({j \in 1..i : values[j] = peak(i)})
        \* the first value is not above the peak it starts from
        since(i) == IF values[1] = peak(i) THEN i ELSE under(i)
        falls == {Quot(100 * (values[i] - peak(i)), peak(i)) : i \in {j \in DOMAIN values : peak(j) > 0}}
    IN  IF Len(values) < 2 THEN [worst |-> NA, longest |-> NA]
        ELSE [worst |-> Min(falls \cup {0}), longest |-> Max({since(i) : i \in DOMAIN values})]

\* Two curves on the days of the first, with the last known value of the second.
Align(curve, benchmark) ==
    LET known(day) == {i \in DOMAIN benchmark : benchmark[i].day <= day}
        common == SelectSeq(curve, LAMBDA p : known(p.day) # {})
    IN  [i \in DOMAIN common |-> [day |-> common[i].day, value |-> common[i].value,
                                  other |-> benchmark[Max(known(common[i].day))].value]]

\* trades: records with a profit and a return.
TradeStatistics(trades) ==
    LET won == SelectSeq(trades, LAMBDA t : t.pnl > 0)
        lost == SelectSeq(trades, LAMBDA t : t.pnl < 0)
        sum(ts) == FoldSeq(LAMBDA t, s : t.pnl + s, 0, ts)
        decided == Len(won) + Len(lost)
    IN  [total |-> Len(trades), wins |-> Len(won), losses |-> Len(lost),
         win_rate |-> IF decided = 0 THEN NA ELSE Quot(100 * Len(won), decided),
         profit_factor |-> IF sum(lost) = 0 THEN NA ELSE Quot(100 * sum(won), -sum(lost))]

Measured(curve, benchmark, trades) ==
    LET values == Values(curve)
        aligned == Align(curve, benchmark)
        market == [i \in DOMAIN aligned |-> aligned[i].other]
        compared == Len(benchmark) >= 2 /\ Len(aligned) >= 2
        index == IF compared THEN TotalReturn(market) ELSE NA
        enough(returns) == Len(returns) >= MinReturns
    IN  [final |-> IF Len(curve) < 2 THEN 0 ELSE values[Len(values)],
         total_return |-> TotalReturn(values), drawdown |-> Drawdown(values),
         rated |-> enough(Returns(values)),
         compared |-> compared /\ enough(Returns(market)) /\ enough(Returns(Values(aligned))),
         excess |-> Plus(TotalReturn(values), IF Known(index) THEN -index ELSE NA),
         trades |-> TradeStatistics(trades)]
==============================================================================
