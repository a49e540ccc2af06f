------------------------------ MODULE Technicals ------------------------------
(***************************************************************************)
(* The technical engine (src/backend/analytics/technical.py): from bars to *)
(* a snapshot, the signals seen in it and the score.  Windows are counted  *)
(* in bars and are constants.  Volatility is not computed but read off the *)
(* snapshot's inputs; of four horizons of momentum two are kept and of the *)
(* moving averages three; the bands and how strong a signal is are left    *)
(* out.  Every bar has a close.                                            *)
(***************************************************************************)
EXTENDS Indicators

CONSTANTS
    MinBars,            \* fewer bars give no technical read
    RangeBars,          \* fewer bars give no breakout
    ShortWindow, MidWindow, LongWindow,     \* of the moving averages and of the volume
    RsiWindow,          \* of the relative strength index and of the range
    MonthWindow, QuarterWindow,             \* of momentum
    Wing                \* bars on either side of a swing

ASSUME WindowAssumption ==
    {MinBars, RangeBars, ShortWindow, MidWindow, LongWindow, RsiWindow,
     MonthWindow, QuarterWindow, Wing} \subseteq Nat \ {0}

ClassifyTrend(s) ==
    LET full == Known(s.mid) /\ Known(s.long)
        half == ~ full /\ Known(s.short) /\ Known(s.mid)
    IN  CASE s.price = NA -> "UNKNOWN"
          [] Known(s.price) /\ full /\ s.price > s.mid /\ s.mid > s.long -> "STRONG_UPTREND"
          [] Known(s.price) /\ full /\ s.price < s.mid /\ s.mid < s.long -> "STRONG_DOWNTREND"
          [] Known(s.price) /\ half /\ s.price > s.short /\ s.short > s.mid -> "UPTREND"
          [] Known(s.price) /\ half /\ s.price < s.short /\ s.short < s.mid -> "DOWNTREND"
          [] OTHER -> IF full THEN (IF s.price > s.long THEN "UPTREND" ELSE "DOWNTREND")
                      ELSE "SIDEWAYS"

\* The first crossing of fast over or under slow in the last bars both have.
RecentCross(fast, slow, lookback) ==
    LET both == SelectSeq([i \in 1..Min({Len(fast), Len(slow)}) |-> <<fast[i], slow[i]>>],
                          LAMBDA p : Known(p[1]) /\ Known(p[2]))
        recent == SubSeq(both, Max({1, Len(both) - lookback}), Len(both))
        over(i) == recent[i][1] <= recent[i][2] /\ recent[i + 1][1] > recent[i + 1][2]
        under(i) == recent[i][1] >= recent[i][2] /\ recent[i + 1][1] < recent[i + 1][2]
        at == {i \in 1..(Len(recent) - 1) : over(i) \/ under(i)}
    IN  IF at = {} THEN "none" ELSE IF over(Min(at)) THEN "above" ELSE "below"

Nearest(levels, price) ==
    CHOOSE r \in levels : \A q \in levels : Magnitude(r - price) <= Magnitude(q - price)

\* What is seen on the chart, with the way it points.
DetectSignals(s, bars) ==
    LET closes == Column(bars, "close")
        window == Present(closes)
        ranged == Len(window) >= RangeBars /\ Known(s.price)
        high == Max(Range(window))
        low == Min(Range(window))
        macd == Macd(closes, ShortWindow, MidWindow)
        pace == Quot(s.quarter, 3)
        moving == Known(s.month) /\ Known(s.quarter)
        crosses(fast, slow, lookback, up, down) ==
            LET cross == RecentCross(fast, slow, lookback)
            IN  {<<up, "bullish">> : x \in {cross} \cap {"above"}}
                    \cup {<<down, "bearish">> : x \in {cross} \cap {"below"}}
        seen(condition, name, way) == IF condition THEN {<<name, way>>} ELSE {}
        within(gap) == gap > 0 /\ 100 * gap <= 3 * s.price
        lastTwo == Present(SubSeq(closes, Max({1, Len(closes) - 1}), Len(closes)))
        rising == Len(lastTwo) = 2 /\ lastTwo[2] > lastTwo[1]
    IN  UNION {
        crosses(Sma(closes, MidWindow), Sma(closes, LongWindow), 10, "GOLDEN_CROSS", "DEATH_CROSS"),
        seen(ranged /\ 1000 * s.price >= 995 * high, "BREAKOUT", "bullish"),
        seen(ranged /\ 1000 * s.price < 995 * high /\ 1000 * s.price <= 1005 * low,
             "BREAKDOWN", "bearish"),
        seen(s.resistances # {} /\ within(Nearest(s.resistances, s.price) - s.price),
             "APPROACHING_RESISTANCE", "neutral"),
        seen(s.supports # {} /\ within(s.price - Nearest(s.supports, s.price)),
             "AT_SUPPORT", "bullish"),
        seen(Known(s.rsi) /\ s.rsi <= 30, "OVERSOLD", "bullish"),
        seen(Known(s.rsi) /\ s.rsi >= 70, "OVERBOUGHT", "bearish"),
        crosses(macd, Ema(macd, RsiWindow), 5, "MACD_BULLISH_CROSS", "MACD_BEARISH_CROSS"),
        seen(Known(s.volume_ratio) /\ s.volume_ratio >= 200,
             "VOLUME_SPIKE", IF rising THEN "bullish" ELSE "bearish"),
        seen(moving /\ s.month > pace /\ s.month > 2, "MOMENTUM_ACCELERATION", "bullish"),
        seen(moving /\ s.month < pace /\ s.month < -2, "MOMENTUM_DETERIORATION", "bearish"),
        crosses(closes, Sma(closes, MidWindow), 5, "TREND_CHANGE_UP", "TREND_CHANGE_DOWN")}

TechnicalWeights == [trend |-> 25, momentum |-> 20, rsi_position |-> 10, macd |-> 10,
                     volume_confirmation |-> 10, relative_strength |-> 15,
                     volatility_posture |-> 5, support_resistance |-> 5]

Scaled(x, score) == IF Known(x) THEN Clamp(0, score, 100) ELSE NA

\* Nearer to support scores higher; a side without a level scores a constant.
RangeScore(s) ==
    CASE s.supports # {} /\ s.resistances # {} ->
            LET support == Max(s.supports)
                resistance == Min(s.resistances)
            IN  IF resistance > support THEN Linear(s.price, resistance, support) ELSE 35
      [] s.supports = {} /\ s.resistances # {} -> 35
      [] s.supports # {} /\ s.resistances = {} -> 70
      [] s.supports = {} /\ s.resistances = {} -> NA

ScoreTechnical(s) ==
    LET over(ma) == IF ma = NA THEN NA ELSE IF s.price > ma THEN 100 ELSE 0
        crossed == IF s.mid = NA \/ s.long = NA THEN NA ELSE IF s.mid > s.long THEN 100 ELSE 0
        returns == Blend(<<20, 35>>, <<s.month, s.quarter>>)
        spread == IF Known(s.macd) /\ Known(s.macd_signal) THEN s.macd - s.macd_signal ELSE NA
    IN  BuildScore(TechnicalWeights,
        [trend |-> Blend(<<1, 1, 1, 1>>, <<over(s.short), over(s.mid), over(s.long), crossed>>),
         momentum |-> Scaled(returns, 50 + Quot(5 * returns, 4)),
         rsi_position |-> Scaled(s.rsi, 100 - Quot(5 * Magnitude(2 * s.rsi - 115), 4)),
         macd |-> Scaled(spread, 50 + Quot(5000 * spread, s.price)),
         volume_confirmation |-> Scaled(s.volume_ratio, 40 + Quot(6 * (s.volume_ratio - 100), 10)),
         relative_strength |-> Scaled(s.relative, 50 + 2 * s.relative),
         volatility_posture |-> Scaled(s.volatility, 100 - Quot(10 * s.volatility, 6)),
         support_resistance |-> RangeScore(s)])

\* What is read off the bars: the last reading of every indicator.
Snapshot(bars, benchmark, volatility) ==
    LET closes == Column(bars, "close")
        volumes == Column(bars, "volume")
        levels == SupportResistance(bars, Wing)
    IN  [price |-> LastValid(closes),
         short |-> LastValid(Sma(closes, ShortWindow)),
         mid |-> LastValid(Sma(closes, MidWindow)),
         long |-> LastValid(Sma(closes, LongWindow)),
         rsi |-> LastValid(Rsi(closes, RsiWindow)),
         macd |-> LastValid(Macd(closes, ShortWindow, MidWindow)),
         macd_signal |-> LastValid(MacdSignal(closes, ShortWindow, MidWindow, RsiWindow)),
         atr |-> LastValid(Atr(bars, RsiWindow)),
         volume_ratio |-> SafeDiv(LastValid(volumes), LastValid(Sma(volumes, ShortWindow))),
         volatility |-> volatility,
         month |-> LastValid(Momentum(closes, MonthWindow)),
         quarter |-> LastValid(Momentum(closes, QuarterWindow)),
         relative |-> IF benchmark # <<>> /\ Len(benchmark) = Len(closes)
                      THEN LastValid(RelativeStrength(closes, benchmark, QuarterWindow)) ELSE NA,
         supports |-> levels.supports,
         resistances |-> levels.resistances]

NoRead == [insufficient |-> TRUE, price |-> NA, trend |-> "UNKNOWN", signals |-> {},
           volatility |-> NA, score |-> NoResult, supports |-> {}, resistances |-> {}, atr |-> NA,
           rsi |-> NA, relative |-> NA, mid |-> NA, long |-> NA, month |-> NA, quarter |-> NA]

Assessed(s, bars) ==
    [insufficient |-> FALSE, price |-> s.price, trend |-> ClassifyTrend(s),
     signals |-> DetectSignals(s, bars), volatility |-> s.volatility,
     score |-> ScoreTechnical(s), supports |-> s.supports, resistances |-> s.resistances,
     atr |-> s.atr, rsi |-> s.rsi, relative |-> s.relative, mid |-> s.mid,
     long |-> s.long, month |-> s.month, quarter |-> s.quarter]

\* bars: [open, high, low, close, volume] from the oldest to the latest;
\* benchmark: its closes; volatility: in percent of a year.
AnalyzeTechnical(bars, benchmark, volatility) ==
    IF Len(bars) < MinBars THEN NoRead
    ELSE The({Assessed(s, bars) : s \in {Snapshot(bars, benchmark, volatility)}})
==============================================================================
