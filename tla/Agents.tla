--------------------------------- MODULE Agents -------------------------------
(***************************************************************************)
(* The five agents of the desk (src/backend/research/agents.py) as what    *)
(* they say of a pack when no language model answers: a set of claims,     *)
(* each <<its tag, its topic>>.  Wording is left out, and so are the       *)
(* concerns no item of the pack can raise here: the growth over several    *)
(* years is not modelled.  The portfolio manager also decides.             *)
(***************************************************************************)
EXTENDS Evidence, ThesisLevels

Has(pack, k) == k \in DOMAIN pack.items
Over(pack, k, x) == Has(pack, k) /\ pack.items[k] > x
Under(pack, k, x) == Has(pack, k) /\ pack.items[k] < x
Both(pack, j, k) == Has(pack, j) /\ Has(pack, k)

Pointing(pack, way) == {s \in pack.signals : s[2] = way}

\* What can be said only of an item that is there.
Facts(pack, topics) == {<<"FACT", k>> : k \in topics \cap (DOMAIN pack.items \cup pack.texts)}
Say(condition, claim, topic) == IF condition THEN {<<claim, topic>>} ELSE {}

\* Compared with the median of the sector, when there is one and it is not 0.
PeerPriced(pack) == Both(pack, "pe", "sector_median_pe") /\ pack.items["sector_median_pe"] # 0
AgainstAverage(pack) == Both(pack, "price", "sma200") /\ pack.items["sma200"] # 0

FundamentalAnalyst(pack) ==
    Facts(pack, {"reporting_period", "revenue_growth", "net_margin", "operating_margin", "roe",
                 "roic", "debt_to_equity", "net_debt_to_ebitda", "interest_coverage", "fcf_margin",
                 "cash_conversion", "pe", "ev_ebitda", "pb", "fcf_yield"})
    \cup Say(Over(pack, "roic", 15) \/ Under(pack, "roic", 5), "INFERENCE", "roic")
    \cup Say(Over(pack, "net_debt_to_ebitda", 300) \/ Under(pack, "net_debt_to_ebitda", 100),
             "INFERENCE", "net_debt_to_ebitda")
    \cup Say(Under(pack, "cash_conversion", 80), "INFERENCE", "cash_conversion")
    \cup Say(PeerPriced(pack), "CALCULATION", "sector_median_pe")
    \cup Say(PeerPriced(pack), "INFERENCE", "sector_median_pe")
    \cup Say(Has(pack, "fundamental_score"), "CALCULATION", "fundamental_score")
    \cup {<<"UNKNOWN", k>> : k \in Range(SubSeq(SetToSeq(pack.unknowns), 1,
                                            Min({6, Cardinality(pack.unknowns)})))}

TechnicalAnalyst(pack) ==
    Facts(pack, {"trend", "price", "sma200", "rsi14", "momentum_3m", "relative_strength_3m",
                 "volatility_20d", "support_levels", "resistance_levels"})
    \cup Say(AgainstAverage(pack), "CALCULATION", "sma200")
    \cup Say(Has(pack, "rsi14") /\ pack.items["rsi14"] \notin 31..69, "INFERENCE", "rsi14")
    \cup Say(Has(pack, "relative_strength_3m"), "INFERENCE", "relative_strength_3m")
    \cup {<<"FACT", s[1]>> : s \in pack.signals}
    \cup Say(Pointing(pack, "bullish") \cup Pointing(pack, "bearish") # {}, "INFERENCE", "signals")
    \cup Say(Has(pack, "technical_score"), "CALCULATION", "technical_score")

Material == {"MERGER", "EARNINGS", "BUYBACK", "CONTRACT", "CAPITAL_ACTION", "DIVIDEND"}

EventAnalyst(pack) ==
    IF pack.events = {} THEN {<<"UNKNOWN", "events">>}
    ELSE {<<"FACT", e>> : e \in pack.events}
         \cup {<<"INFERENCE", IF pack.events \cap Material # {} THEN "material" ELSE "routine">>,
               <<"UNKNOWN", "calendar">>}
         \cup Say(Has(pack, "catalyst_score"), "CALCULATION", "catalyst_score")
         \cup Say(Has(pack, "news_sentiment"), "CALCULATION", "news_sentiment")

Warned(pack) == {<<"FACT", w>> : w \in pack.warnings}

\* What the bear analyst can find to attack.
Concerns(pack) ==
    LET discounted == PeerPriced(pack) /\ 10 * pack.items["pe"] < 7 * pack.items["sector_median_pe"]
        below == AgainstAverage(pack) /\ pack.items["price"] < pack.items["sma200"]
        unconverted == Under(pack, "cash_conversion", 90)
        leveraged == Over(pack, "net_debt_to_ebitda", 250)
    IN  Say(Over(pack, "pe", 2000), "INFERENCE", "pe")
        \cup Say(discounted, "OPINION", "sector_median_pe")
        \cup Say(unconverted, "FACT", "cash_conversion")
        \cup Say(unconverted, "INFERENCE", "cash_conversion")
        \cup Say(leveraged, "FACT", "net_debt_to_ebitda")
        \cup Say(leveraged, "INFERENCE", "net_debt_to_ebitda")
        \cup Say(Under(pack, "interest_coverage", 300), "INFERENCE", "interest_coverage")
        \cup Say(Under(pack, "revenue_growth", 0), "FACT", "revenue_growth")
        \cup {<<"FACT", s[1]>> : s \in Pointing(pack, "bearish")}
        \cup Say(below, "INFERENCE", "sma200")
        \cup Say(Over(pack, "volatility_20d", 45), "INFERENCE", "volatility_20d")
        \cup Say(Under(pack, "score_coverage", 80), "INFERENCE", "score_coverage")

\* With nothing to attack it says so; a caution about the market comes always.
BearAnalyst(pack) ==
    Concerns(pack) \cup Warned(pack)
    \cup Say(pack.unknowns # {}, "UNKNOWN", "gaps")
    \cup Say(Concerns(pack) = {}, "OPINION", "no_strong_case")
    \cup {<<"OPINION", "market">>}

------------------------------------------------------------------------------
(* The portfolio manager.  A conviction is in tenths of a point.           *)

\* Without the bound for synthetic data.
ConvictionOfScore(pack) == Clamp(0, 2 * (pack.items["alpha_score"] - 40), 100)

\* Scaled from the score, down to two fifths by missing coverage, cut when the
\* bearish signals outnumber the bullish; of synthetic data at most one point.
Conviction(pack) ==
    LET strength == Clamp(0, 2 * (pack.items["alpha_score"] - 40), 100)
        covered == Quot(strength * Clamp(40, Quot(100 * pack.items["score_coverage"], 90), 100), 100)
        bears == Cardinality(Pointing(pack, "bearish")) > Cardinality(Pointing(pack, "bullish"))
        cut == IF bears THEN Quot(85 * covered, 100) ELSE covered
    IN  IF pack.synthetic THEN Min({cut, 10}) ELSE cut

\* The action and the conviction that the numbers alone imply.
ScoreBasedAction(pack, held) ==
    LET reaches(score, coverage) == ~ Under(pack, "alpha_score", score)
                                        /\ ~ Under(pack, "score_coverage", coverage)
        action == CASE reaches(70, 70) -> "BUY"
                    [] ~ reaches(70, 70) /\ reaches(58, 60) -> IF held THEN "HOLD" ELSE "BUY"
                    [] ~ reaches(58, 60) /\ reaches(35, 0) -> IF held THEN "HOLD" ELSE "WATCH"
                    [] ~ reaches(35, 0) -> IF held THEN "SELL" ELSE "WATCH"
    IN  IF Has(pack, "alpha_score") THEN [action |-> action, conviction |-> Conviction(pack)]
        ELSE [action |-> "WATCH", conviction |-> 0]

Neighbours == [BUY |-> {"BUY", "HOLD"}, HOLD |-> {"BUY", "HOLD", "WATCH"},
               WATCH |-> {"HOLD", "WATCH", "SELL"}, SELL |-> {"WATCH", "SELL"}]

\* Taking whatever the language model states.
DeriveStated(pack, held, output) ==
    LET numbers == ScoreBasedAction(pack, held)
    IN  [numbers EXCEPT !.action = IF output.stated # Unstated THEN output.stated ELSE @]

\* What the language model states is taken when it is a neighbour; there is no
\* decision but to watch a name without a score.
DeriveAction(pack, held, output) ==
    LET numbers == ScoreBasedAction(pack, held)
        heard == Has(pack, "alpha_score") /\ output.by = "llm"
                    /\ output.stated \in Neighbours[numbers.action]
    IN  [numbers EXCEPT !.action = IF heard THEN output.stated ELSE @]

ExitConditions(pack) ==
    {k \in {"sma200", "cash_conversion", "net_debt_to_ebitda"} : Has(pack, k)}
    \cup ({"support_levels"} \cap pack.texts) \cup {"fundamental_score"}

\* The memo; bear: what the bear analyst said, however it was written.
PortfolioManager(pack, held, bear) ==
    {<<"CALCULATION", "decision">>, <<"CALCULATION", "conviction">>, <<"INFERENCE", "why_now">>}
    \cup Facts(pack, {"fundamental_score", "technical_score", "quantitative_score",
                      "catalyst_score", "risk_score"})
    \cup Say(Has(pack, "alpha_score"), "INFERENCE", ScoreBasedAction(pack, held).action)
    \cup Say(\E c \in bear : c[1] \in {"INFERENCE", "FACT"}, "INFERENCE", "bear_case")
    \cup Say(\E c \in bear : c[1] = "UNKNOWN", "INFERENCE", "bear_gaps")
    \cup {<<"INFERENCE", x>> : x \in ExitConditions(pack)}
    \cup Warned(pack)
==============================================================================
