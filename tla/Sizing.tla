-------------------------------- MODULE Sizing --------------------------------
(***************************************************************************)
(* How large a position is advised (src/backend/portfolio/sizing.py): two  *)
(* gates, then one stage after another.  Weights are in hundredths of a    *)
(* percent of the portfolio, a conviction in tenths of a point, distances  *)
(* and the volatility in percent, turnover and the value of the portfolio  *)
(* in thousands; the limits and multipliers are those of config/risk.yaml. *)
(***************************************************************************)
EXTENDS Integers

Unset == -1000000           \* an input that is not available
Set(x) == x # Unset

ConvictionFloor == 40
BaseWeight == 600
MaxPosition == 2000
MaxSector == 3000
MinCash == 500
MaxSpeculative == 1500
MaxRisk == 200
MinPosition == 100

Speculative == {"technical_swing", "special_situations", "bearish_short"}

AtMost(weight, cap) == IF weight > cap THEN cap ELSE weight
AtLeast(weight, floor) == IF weight < floor THEN floor ELSE weight
Distance(a, b) == IF a >= b THEN a - b ELSE b - a

\* Reward and risk of the levels; incoherent ones are not compared.
Reward(i) == IF i.direction = "SHORT" THEN i.entry - i.target ELSE i.target - i.entry
Risk(i) == IF i.direction = "SHORT" THEN i.stop - i.entry ELSE i.entry - i.stop
Coherent(i) == Set(i.entry) /\ Set(i.target) /\ Set(i.stop) /\ Risk(i) > 0 /\ Reward(i) > 0

\* Too little conviction, or less than one and a half of reward for the risk.
Rejected(i) ==
    \/ i.conviction = Unset
    \/ i.conviction < ConvictionFloor
    \/ Coherent(i) /\ 2 * Reward(i) < 3 * Risk(i)

\* Conviction and volatility scale the base up or down.
Convinced(i) == (BaseWeight * AtMost(i.conviction, 126)) \div 70
Steadied(i, weight) ==
    IF Set(i.volatility) /\ i.volatility > 0
    THEN (weight * AtLeast(AtMost(3000 \div i.volatility, 135), 45)) \div 100
    ELSE weight

\* The distance to the invalidation, in percent of the entry.
StopDistance(i) ==
    IF Set(i.entry) /\ Set(i.stop) /\ i.entry > 0
    THEN (100 * Distance(i.entry, i.stop)) \div i.entry ELSE 0

RiskCapped(i, weight) ==
    IF StopDistance(i) > 0 THEN AtMost(weight, (100 * MaxRisk) \div StopDistance(i)) ELSE weight

Decorrelated(i, weight) ==
    IF i.correlated > 0 THEN (weight * AtLeast(100 - 25 * i.correlated, 30)) \div 100 ELSE weight

\* Forgetting what of a limit is taken.
HeadroomUntaken(limit, taken) == limit

\* What is left of a limit.
Headroom(limit, taken) == AtLeast(limit - taken, 0)

SpeculationCapped(i, weight) ==
    IF i.strategy \in Speculative
    THEN AtMost(weight, Headroom(MaxSpeculative, i.speculative_weight)) ELSE weight

\* A tenth of a day's turnover.
LiquidityCapped(i, weight) ==
    IF Set(i.turnover) /\ i.value > 0 THEN AtMost(weight, (1000 * i.turnover) \div i.value)
    ELSE weight

\* Every stage in its order.
Staged(i) ==
    LET bounded == Decorrelated(i, RiskCapped(i, Steadied(i, Convinced(i))))
        sector == AtMost(bounded, Headroom(MaxSector, i.sector_weight))
        speculated == SpeculationCapped(i, AtMost(sector, MaxPosition))
    IN  LiquidityCapped(i, AtMost(speculated, Headroom(i.cash, MinCash)))

\* The advised weight, none at all below the least position.
SizePosition(i) ==
    IF Rejected(i) THEN 0 ELSE IF Staged(i) < MinPosition THEN 0 ELSE Staged(i)
==============================================================================
