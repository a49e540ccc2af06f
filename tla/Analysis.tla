------------------------------- MODULE Analysis -------------------------------
(***************************************************************************)
(* How the engines are put together (src/backend/analytics/service.py).    *)
(* What is stored about a name is its dossier:                             *)
(*   bars         [day, open, high, low, close, volume], oldest first      *)
(*   statements   published ones, newest first                             *)
(*   shares, sector                                                        *)
(*   events       [kind, importance, age]                                  *)
(*   sentiment    of the latest news, NA when there is none                *)
(*   volatility   in percent of a year                                     *)
(*   history      price to earnings of the past                            *)
(*   price_age, statement_age   days since they were retrieved             *)
(*   period_age   days since the period of the latest statement            *)
(* A bar, a statement and an event also say whether their source is        *)
(* synthetic.  Only what is known as of the day of the analysis is in a    *)
(* dossier.                                                                *)
(***************************************************************************)
EXTENDS Fundamentals, Technicals, Factors, AlphaScore

\* A figure is a number; the one that is missing is NA.
StoredBar == [day : Int, open : Int, high : Int, low : Int, close : Int, volume : Int, fake : BOOLEAN]
StoredStatement ==
    [revenue : Int, gross : Int, ebitda : Int, operating : Int, net : Int, eps : Int, cash : Int,
     debt : Int, equity : Int, ocf : Int, capex : Int, fcf : Int, interest : Int, dividends : Int,
     current_assets : Int, current_liabilities : Int, fake : BOOLEAN]

LastClose(d) == IF d.bars = <<>> THEN NA ELSE LastValid(Column(d.bars, "close"))

\* Average traded value, from the bars that have a volume.
Turnover(bars) ==
    LET traded == {i \in DOMAIN bars : Known(bars[i].close) /\ Known(bars[i].volume)}
    IN  IF traded = {} THEN NA
        ELSE SumFunction([i \in traded |-> bars[i].close * bars[i].volume]) \div Cardinality(traded)

\* The worst fall from a peak, in percent.
MaxDrawdown(bars) ==
    LET closes == Present(Column(bars, "close"))
        falls == {Quot(100 * (closes[i] - Max(Range(SubSeq(closes, 1, i)))),
                       Max(Range(SubSeq(closes, 1, i)))) : i \in DOMAIN closes}
    IN  IF falls = {} THEN NA ELSE Min(falls)

\* The benchmark's last close on or before each of the days.
AlignBenchmark(bars, benchmark) ==
    [i \in DOMAIN bars |->
        LET past == {j \in DOMAIN benchmark : benchmark[j].day <= bars[i].day /\ Known(benchmark[j].close)}
        IN  IF past = {} THEN NA ELSE benchmark[Max(past)].close]

Technical(d, benchmark) ==
    AnalyzeTechnical(d.bars, IF benchmark = <<>> THEN <<>> ELSE AlignBenchmark(d.bars, benchmark),
                     d.volatility)

\* The metrics the factor model compares the universe by.
FactorMetrics(d, tech, m) ==
    LET metric(f) == IF f \in DOMAIN m THEN m[f] ELSE NA
    IN  [pe |-> metric("pe"), pb |-> metric("pb"), ev_ebitda |-> metric("ev_ebitda"),
         fcf_yield |-> metric("fcf_yield"), roe |-> metric("roe"), roic |-> metric("roic"),
         net_margin |-> metric("net_margin"), debt_to_equity |-> metric("debt_to_equity"),
         revenue_growth |-> metric("revenue_growth"), eps_growth |-> metric("eps_growth"),
         turnover |-> Turnover(d.bars),
         volatility |-> tech.volatility, month |-> tech.month, quarter |-> tech.quarter]

Alone(d) == AnalyzeFundamentals(d.statements, LastClose(d), d.shares, <<>>, <<>>, NA).metrics

UniverseMetrics(universe) ==
    [t \in DOMAIN universe |->
        The({FactorMetrics(universe[t], tech, m) :
                tech \in {Technical(universe[t], <<>>)}, m \in {Alone(universe[t])}})]

\* Values of the names of the same sector; too few peers are no peers.
MinPeers == 3
PeerMetrics(universe, metrics, name, key) ==
    LET peers == {t \in DOMAIN universe \ {name} : universe[t].sector = universe[name].sector}
        valued == {t \in peers : Known(metrics[t][key])}
    IN  IF Cardinality(peers) < MinPeers \/ Cardinality(valued) < MinPeers THEN <<>>
        ELSE [t \in valued |-> metrics[t][key]]

\* Every engine for one name, and the master score.
Combined(d, technical, fundamental, quant, peers) ==
    LET m == fundamental.metrics
        metric(f) == IF f \in DOMAIN m THEN m[f] ELSE NA
        risk == [volatility |-> technical.volatility, drawdown |-> MaxDrawdown(d.bars),
                 turnover |-> Turnover(d.bars), debt_to_equity |-> metric("debt_to_equity"),
                 net_debt_to_ebitda |-> metric("net_debt_to_ebitda"),
                 interest_coverage |-> metric("interest_coverage"),
                 data_age |-> IF d.statements = <<>> THEN NA ELSE d.period_age,
                 days_to_earnings |-> NA]
        ages == [fundamentals |-> IF d.statements = <<>> THEN NA ELSE d.statement_age,
                 price |-> IF d.bars = <<>> THEN NA ELSE d.price_age]
    IN  [technical |-> technical, fundamental |-> fundamental, quant |-> quant,
         peers |-> peers, turnover |-> Turnover(d.bars),
         alpha |-> ComputeAlphaScore(fundamental.score, technical.score, quant, d.events, risk,
                                     d.sentiment, ages)]

\* metrics: those of the universe, worked out once for all of its names.
AnalyzeStock(universe, metrics, name, benchmark) ==
    LET d == universe[name]
        peers(key) == PeerMetrics(universe, metrics, name, key)
    IN  The({Combined(d, technical, fundamental, quant, [pe |-> peers("pe"), pb |-> peers("pb")]) :
                technical \in {Technical(d, benchmark)},
                fundamental \in {AnalyzeFundamentals(d.statements, LastClose(d), d.shares,
                                     peers("pe"), d.history, ScoreCatalysts(d.events).value)},
                quant \in {ScoreQuant(metrics, name)}})
==============================================================================
