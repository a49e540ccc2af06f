----------------------------- MODULE ThesisLevels -----------------------------
(***************************************************************************)
(* What a thesis is made of (src/backend/research/thesis.py): its          *)
(* strategy and direction, its status, and the three price levels read off *)
(* the chart.  An analysis is a record with the action decided, the two    *)
(* scores that pick a strategy, whether a corporate action is pending, and *)
(* the chart: support and resistance levels and the average true range.    *)
(***************************************************************************)
EXTENDS Integers, FiniteSetsExt

None == 0
NoScore == -1

Actions == {"BUY", "HOLD", "WATCH", "SELL"}
ThesisDirections == {"LONG", "SHORT"}
Strategies == {"fundamental_long", "technical_swing", "special_situations", "bearish_short"}
Statuses == {"ACTIVE", "WATCH", "EXIT_PROPOSED", "INVALIDATED"}

Available(x) == x # None

\* A live corporate action comes first, then what speaks against the name.
ClassifyStrategy(a) ==
    CASE a.event -> "special_situations"
      [] ~ a.event /\ (a.action = "SELL" \/ a.fundamental \in 0..34) -> "bearish_short"
      [] ~ a.event /\ a.action # "SELL" /\ a.fundamental \notin 0..34 ->
            IF a.technical # NoScore /\ (a.fundamental = NoScore
                                            \/ a.technical > a.fundamental + 12)
            THEN "technical_swing"
            ELSE "fundamental_long"

DirectionOf(a) ==
    IF a.action = "SELL" \/ ClassifyStrategy(a) = "bearish_short" THEN "SHORT" ELSE "LONG"

StatusFor(action) ==
    CASE action \in {"BUY", "HOLD"} -> "ACTIVE"
      [] action = "WATCH" -> "WATCH"
      [] action = "SELL" -> "EXIT_PROPOSED"

------------------------------------------------------------------------------
(* Levels: the nearest one of the chart, else a distance in ranges.        *)

Above(chart, price) == {r \in chart.resistances : r > price}
Below(chart, price) == {s \in chart.supports : s < price}

\* Four ranges away for a target, two and a half for the invalidation.
Ceiling(chart, price, halves) ==
    IF Above(chart, price) # {} THEN Min(Above(chart, price))
    ELSE IF chart.atr > 0 THEN price + (halves * chart.atr) \div 2 ELSE None

Floor(chart, price, halves) ==
    IF Below(chart, price) # {} THEN Max(Below(chart, price))
    ELSE IF chart.atr > 0 THEN price - (halves * chart.atr) \div 2 ELSE None

DeriveLevels(chart, price, direction) ==
    LET unread == price = None \/ chart.insufficient
        target == IF direction = "LONG" THEN Ceiling(chart, price, 8) ELSE Floor(chart, price, 8)
        stop == IF direction = "LONG" THEN Floor(chart, price, 5) ELSE Ceiling(chart, price, 5)
    IN  [entry |-> price,
         target |-> IF unread THEN None ELSE target,
         invalidation |-> IF unread THEN None ELSE stop]

\* Has price gone through the level that disproves the thesis?
Breached(direction, levels, price) ==
    /\ Available(levels.invalidation)
    /\ Available(price)
    /\ IF direction = "LONG" THEN price <= levels.invalidation
                             ELSE price >= levels.invalidation

TargetReached(direction, levels, price) ==
    /\ Available(levels.target)
    /\ Available(price)
    /\ IF direction = "LONG" THEN price >= levels.target
                             ELSE price <= levels.target
==============================================================================
