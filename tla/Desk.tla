---------------------------------- MODULE Desk --------------------------------
(***************************************************************************)
(* The research desk.  A run (src/backend/research/pipeline.py) scores the *)
(* names of the universe, keeps the best and sends each through five       *)
(* agents that share one language model and one budget of calls            *)
(* (research/llm.py); the last of them decides.  Analysts read the pages   *)
(* of a name (api/routes_gmg.py), ask for the size of a position           *)
(* (api/routes_api.py) and buy or sell it in the paper portfolio.          *)
(*                                                                         *)
(* stored      what is stored of every name: one of the given universes    *)
(* run         the run: its phase, the names to score, the analyses so     *)
(*             far, the names to work on, what the agents said of the first *)
(* used        the calls counted against the budget of the run             *)
(* calls       the calls that reached the language model in the run        *)
(* decisions   the results of the last run                                 *)
(* cash, positions     the paper portfolio: money, and the shares held     *)
(* advice      the size just given, to be followed or forgotten            *)
(* page        the rating and valuation just read                          *)
(* fills       the orders filled so far, counted for their bound           *)
(*                                                                         *)
(* Bounds: prices move only when what is stored does; a position is opened *)
(* long, with the quantity advised.  Money is in whole units, and what an  *)
(* order costs is rounded down to one.  The model's answers are those      *)
(* listed.                                                                 *)
(***************************************************************************)
EXTENDS Agents, Rating, Valuation, Sizing

CONSTANTS
    Universes,          \* what may be stored: functions from names to dossiers
    Benchmark,          \* the bars of the index
    Answers,            \* what the language model may answer
    Requests,           \* runs asked for: [names, min_score, limit]
    HasKey,             \* whether a language model is configured
    CallLimit,          \* calls of the language model per run
    Correlated,         \* how many holdings an analyst may say are correlated
    Capital,
    OwnOrders,          \* what analysts buy without asking for a size: [name, quantity]
    MaxFills            \* bound: orders filled, no run begins after the last

ASSUME DeskAssumption ==
    /\ CallLimit \in Nat
    /\ \A request \in Requests : request.limit \in Nat
    /\ \A u \in Universes :
          /\ IsFiniteSet(DOMAIN u)
          /\ \A n \in DOMAIN u :
                /\ u[n].bars \in Seq(StoredBar) /\ u[n].statements \in Seq(StoredStatement)
                /\ u[n].history \in Seq(Int) /\ {u[n].shares, u[n].volatility} \subseteq Int
    /\ Correlated \subseteq Int /\ Capital \in Nat \ {0} /\ MaxFills \in Nat
    /\ \A order \in OwnOrders : order.quantity \in Nat \ {0}

VARIABLES stored, run, used, calls, decisions, cash, positions, fills, advice, page

book == <<cash, positions, fills>>
portfolio == <<cash, positions, fills, advice>>
vars == <<stored, run, used, calls, decisions, cash, positions, fills, advice, page>>

Stages == <<"fundamental", "technical", "event", "bear", "portfolio_manager">>
NoRun == [phase |-> "idle", queue |-> {}, analyses |-> <<>>, work |-> <<>>, outputs |-> <<>>,
          request |-> <<>>]
NoAdvice == [name |-> "none", weight |-> 0, quantity |-> 0]
NoPage == [name |-> "none"]

Metrics == [u \in Universes |-> UniverseMetrics(u)]
Analysed == [u \in Universes |-> [n \in DOMAIN u |-> AnalyzeStock(u, Metrics[u], n, Benchmark)]]

Init ==
    /\ stored \in Universes
    /\ run = NoRun
    /\ used = 0 /\ calls = 0
    /\ decisions = <<>>
    /\ cash = Capital /\ positions = <<>> /\ fills = 0
    /\ advice = NoAdvice /\ page = NoPage

Idle == run.phase = "idle"

\* Other data is stored: what a run does is read once, when it scores.
Refresh ==
    /\ Idle
    /\ stored' \in Universes \ {stored}
    /\ advice' = NoAdvice /\ page' = NoPage
    /\ UNCHANGED <<run, used, calls, decisions, book>>

------------------------------------------------------------------------------
(* A run.                                                                  *)

BeginRun(request) ==
    /\ Idle /\ fills < MaxFills
    /\ run' = [NoRun EXCEPT !.phase = "scoring", !.request = request,
                            !.queue = request.names \cap DOMAIN stored]
    /\ used' = 0 /\ calls' = 0 /\ decisions' = <<>>
    /\ advice' = NoAdvice /\ page' = NoPage
    /\ UNCHANGED <<stored, book>>

\* The names are analysed one by one, in the order of the universe.
NextOf(queue) == CHOOSE n \in queue : TRUE

\* One name is analysed; below the least score asked for it is left aside.
Score ==
    /\ run.phase = "scoring" /\ run.queue # {}
    /\ \E n \in {NextOf(run.queue)} : \E a \in {Analysed[stored][n]} :
          LET kept == \/ run.request.min_score = NA
                      \/ Known(a.alpha.value) /\ a.alpha.value >= run.request.min_score
          IN  run' = [run EXCEPT !.queue = @ \ {n},
                                 !.analyses = IF kept THEN Put(@, n, a) ELSE @]
    /\ UNCHANGED <<stored, used, calls, decisions, portfolio, page>>

\* A name that cannot be analysed does not stop the run.
SkipName ==
    /\ run.phase = "scoring" /\ run.queue # {}
    /\ run' = [run EXCEPT !.queue = @ \ {NextOf(@)}]
    /\ UNCHANGED <<stored, used, calls, decisions, portfolio, page>>

\* The best of the names, as many as asked for (0: all), the best first.
BestFirst(analyses, limit) ==
    LET names == DOMAIN analyses
        value(n) == Max({0, analyses[n].alpha.value})
        size == Cardinality(names)
        kept == IF limit = 0 \/ limit > size THEN size ELSE limit
    IN  {best \in [1..kept -> names] :
            /\ \A i, j \in 1..kept : i < j =>
                  best[i] # best[j] /\ value(best[i]) >= value(best[j])
            /\ \A i \in 1..kept, n \in names \ Range(best) : value(best[i]) >= value(n)}

Rank ==
    /\ run.phase = "scoring" /\ run.queue = {}
    /\ \E best \in BestFirst(run.analyses, run.request.limit) :
          run' = [run EXCEPT !.phase = "agents", !.work = best]
    /\ UNCHANGED <<stored, used, calls, decisions, portfolio, page>>

Pack(n) == BuildEvidencePack(stored[n], run.analyses[n])
Held(n) == n \in DOMAIN positions

\* What agent number i says without a language model.
Compose(i, n) ==
    CASE i = 1 -> FundamentalAnalyst(Pack(n))
      [] i = 2 -> TechnicalAnalyst(Pack(n))
      [] i = 3 -> EventAnalyst(Pack(n))
      [] i = 4 -> BearAnalyst(Pack(n))
      [] i = 5 -> PortfolioManager(Pack(n), Held(n), run.outputs[4].said)

Composed(i, n) == [by |-> "deterministic", said |-> Compose(i, n), warnings |-> {},
                   stated |-> Unstated]

\* Without a key or a budget there is no call; an answer without tagged claims
\* is not used.
Refused == ~ HasKey \/ used >= CallLimit

\* A decision is read out of the last agent's answer only.
Output(i, n, answer) ==
    IF Refused \/ ParseStatements(answer) = {} THEN Composed(i, n)
    ELSE [by |-> "llm", said |-> ParseStatements(answer),
          warnings |-> ValidateOutput(answer, Pack(n)),
          stated |-> IF i = 5 THEN answer.stated ELSE Unstated]

\* Counting only calls that are answered.
CountedAnswers(answer) == IF Refused \/ answer.kind = "error" THEN 0 ELSE 1

\* A call is counted before it is made, whatever comes of it.
Counted(answer) == IF Refused THEN 0 ELSE 1

Complete(answer) ==
    /\ used' = used + Counted(answer)
    /\ calls' = calls + (IF Refused THEN 0 ELSE 1)

\* The next agent works on the first name; the fifth one decides.
Ask(answer) ==
    /\ run.phase = "agents" /\ run.work # <<>> /\ Len(run.outputs) < 4
    /\ Complete(answer)
    /\ run' = [run EXCEPT !.outputs = Append(@, Output(Len(@) + 1, Head(run.work), answer))]
    /\ UNCHANGED <<stored, decisions, portfolio, page>>

\* The analysis as the thesis made of the decision reads it.
ThesisInput(n, action) ==
    LET a == run.analyses[n]
        score(part) == IF a.alpha.parts[part] = NA THEN NoScore ELSE a.alpha.parts[part]
        kinds == {"MERGER", "BUYBACK", "CAPITAL_ACTION", "RESTRUCTURING"}
    IN  [action |-> action, fundamental |-> score("fundamental"), technical |-> score("technical"),
         event |-> Pack(n).events \cap kinds # {}]

Chart(t) == [supports |-> t.supports, resistances |-> t.resistances,
             atr |-> Max({0, t.atr}), insufficient |-> t.insufficient]

\* What is decided of a name, with the levels of its thesis.
Decision(n, output) ==
    LET a == run.analyses[n]
        d == DeriveAction(Pack(n), Held(n), output)
        thesis == ThesisInput(n, d.action)
        price == IF LastClose(stored[n]) = NA THEN None ELSE LastClose(stored[n])
    IN  [action |-> d.action, conviction |-> d.conviction, by |-> output.by,
         numbers |-> ScoreBasedAction(Pack(n), Held(n)), synthetic |-> Pack(n).synthetic,
         scored |-> Known(a.alpha.value),
         strategy |-> ClassifyStrategy(thesis), direction |-> DirectionOf(thesis),
         levels |-> DeriveLevels(Chart(a.technical), price, DirectionOf(thesis)),
         volatility |-> a.technical.volatility, turnover |-> a.turnover]

NextName(r) == [r EXCEPT !.work = Tail(@), !.outputs = <<>>]

Decide(answer) ==
    /\ run.phase = "agents" /\ run.work # <<>> /\ Len(run.outputs) = 4
    /\ Complete(answer)
    /\ LET n == Head(run.work)
       IN  decisions' = Put(decisions, n, Decision(n, Output(5, n, answer)))
    /\ run' = NextName(run)
    /\ UNCHANGED <<stored, portfolio, page>>

\* A name whose research fails is passed over: its calls stay counted.
FailName ==
    /\ run.phase = "agents" /\ run.work # <<>>
    /\ run' = NextName(run)
    /\ UNCHANGED <<stored, used, calls, decisions, portfolio, page>>

EndRun ==
    /\ run.phase = "agents" /\ run.work = <<>>
    /\ run' = NoRun
    /\ UNCHANGED <<stored, used, calls, decisions, portfolio, page>>

------------------------------------------------------------------------------
(* The pages and the portfolio.                                            *)

\* Rating and valuation are made of what is stored when the page is read.
OpenPage(n) ==
    /\ Idle
    /\ \E d \in {stored[n]}, a \in {Analysed[stored][n]} :
           page' = [name |-> n, rating |-> DeriveRating(a.alpha), alpha |-> a.alpha,
                    valuation |-> IF a.fundamental.insufficient THEN Unvalued
                                  ELSE ValuationFor(a.fundamental.metrics, d.statements[1],
                                                    d.shares, LastClose(d), a.peers, d.history)]
    /\ advice' = NoAdvice
    /\ UNCHANGED <<stored, run, used, calls, decisions, book>>

\* The latest bar's close.
LatestPrice(n) ==
    IF n \notin DOMAIN stored \/ stored[n].bars = <<>> THEN NA
    ELSE stored[n].bars[Len(stored[n].bars)].close

Tradable(n) == Known(LatestPrice(n)) /\ LatestPrice(n) > 0

\* What every position is worth: nothing without a price.
MarketValues ==
    [n \in DOMAIN positions |->
        IF Known(LatestPrice(n)) THEN LatestPrice(n) * positions[n].quantity ELSE 0]

Worth(names) == MapThenSumSet(LAMBDA n : MarketValues[n], names)
TotalValue == cash + Worth(DOMAIN positions)

\* Shares of the portfolio in hundredths of a percent: of what is taken rounded
\* up, of the cash rounded down.
Taken(names) ==
    IF TotalValue > 0 THEN -((-10000 * Worth(names)) \div TotalValue) ELSE 0
CashShare == IF TotalValue > 0 THEN (10000 * cash) \div TotalValue ELSE 0

InSector(s) == {n \in DOMAIN positions : positions[n].sector = s}
Speculated == {n \in DOMAIN positions : positions[n].strategy \in Speculative}

Unread(x) == IF x \in {None, NA} THEN Unset ELSE x

\* An analyst asks how much of a name to buy, with what was decided of it.
SizingInputs(n, correlated) ==
    LET d == decisions[n]
    IN  [conviction |-> d.conviction, direction |-> d.direction, strategy |-> d.strategy,
         entry |-> Unread(d.levels.entry), target |-> Unread(d.levels.target),
         stop |-> Unread(d.levels.invalidation), volatility |-> Unread(d.volatility),
         turnover |-> Unread(d.turnover), correlated |-> correlated,
         sector_weight |-> Taken(InSector(stored[n].sector)), cash |-> CashShare,
         speculative_weight |-> Taken(Speculated), value |-> TotalValue \div 1000]

\* As many whole shares as the weight pays at the entry price of the thesis.
Quantity(weight, entry) ==
    IF Available(entry) /\ entry > 0 THEN (weight * TotalValue) \div (10000 * entry) ELSE 0

Advise(n, correlated) ==
    /\ Idle /\ n \in DOMAIN decisions
    /\ decisions[n].action = "BUY" /\ decisions[n].direction = "LONG"
    /\ LET weight == SizePosition(SizingInputs(n, correlated))
       IN  advice' = [name |-> n, weight |-> weight,
                      quantity |-> Quantity(weight, decisions[n].levels.entry)]
    /\ page' = NoPage
    /\ UNCHANGED <<stored, run, used, calls, decisions, book>>

\* Slippage and commission, per side (config/risk.yaml).
SlippageRate == 15
CommissionRate == 20
Slippage(value) == (SlippageRate * value) \div 10000
Commission(gross) == (CommissionRate * gross) \div 10000

\* What shares of some value cost, and bring.
CostOf(value) == LET gross == value + Slippage(value) IN gross + Commission(gross)
ProceedsOf(value) == LET gross == value - Slippage(value) IN gross - Commission(gross)

\* What is bought of a name joins what is held of it: under the new strategy, in
\* the sector the position was opened in.
Grown(n, quantity, strategy) ==
    [quantity |-> quantity + (IF Held(n) THEN positions[n].quantity ELSE 0),
     strategy |-> strategy,
     sector |-> IF Held(n) THEN positions[n].sector ELSE stored[n].sector]

Fill(flow) ==
    /\ fills < MaxFills
    /\ fills' = fills + 1
    /\ cash' = cash + flow
    /\ advice' = NoAdvice /\ page' = NoPage
    /\ UNCHANGED <<stored, run, used, calls, decisions>>

\* Shares are bought at the latest price, if the cash pays for them.
Buy(n, quantity, strategy) ==
    LET cost == CostOf(LatestPrice(n) * quantity)
    IN  /\ Idle /\ Tradable(n) /\ cost <= cash
        /\ positions' = Put(positions, n, Grown(n, quantity, strategy))
        /\ Fill(-cost)

\* The advice is bought, at once.
Follow ==
    /\ advice.quantity > 0
    /\ Buy(advice.name, advice.quantity, decisions[advice.name].strategy)

\* An order of the analyst's own names no strategy: what is held keeps its label.
Order(order) ==
    /\ order.name \in DOMAIN stored
    /\ Buy(order.name, order.quantity,
           IF Held(order.name) THEN positions[order.name].strategy ELSE "none")

\* A position is sold when that is the decision.
Exit(n) ==
    /\ Idle /\ n \in DOMAIN decisions /\ Held(n) /\ decisions[n].action = "SELL"
    /\ Tradable(n)
    /\ positions' = Restrict(positions, DOMAIN positions \ {n})
    /\ Fill(ProceedsOf(LatestPrice(n) * positions[n].quantity))

Next ==
    \/ Refresh
    \/ \E request \in Requests : BeginRun(request)
    \/ Score \/ SkipName \/ Rank
    \/ \E answer \in Answers : Ask(answer) \/ Decide(answer)
    \/ FailName \/ EndRun
    \/ \E n \in DOMAIN stored : OpenPage(n) \/ Exit(n)
    \/ \E n \in DOMAIN stored, correlated \in Correlated : Advise(n, correlated)
    \/ Follow
    \/ \E order \in OwnOrders : Order(order)

Spec == Init /\ [][Next]_vars

------------------------------------------------------------------------------
(* Properties.                                                             *)

\* The types of the state.
TypeOK ==
    /\ stored \in Universes
    /\ run.phase \in {"idle", "scoring", "agents"}
    /\ run.queue \cup Range(run.work) \subseteq DOMAIN stored
    /\ \A i \in DOMAIN run.outputs : \A c \in run.outputs[i].said : c[1] \in Claims
    /\ used \in Nat /\ calls \in Nat /\ cash \in Nat
    /\ \A n \in DOMAIN decisions :
          decisions[n].action \in Actions /\ decisions[n].conviction \in 0..100
    /\ \A n \in DOMAIN positions :
          positions[n].quantity \in Nat \ {0} /\ positions[n].strategy \in Strategies \cup {"none"}
    /\ {advice.weight, advice.quantity} \subseteq Nat

\* Whatever the language model says, and when it fails or runs out of calls in
\* the middle of a name, the decision stays within a notch of what the score
\* implies and the conviction is the score's own (agents.py, _derive_action).
WordsMoveOneNotch ==
    LET notch == [SELL |-> 0, WATCH |-> 1, HOLD |-> 2, BUY |-> 3]
    IN  \A n \in DOMAIN decisions :
            LET d == decisions[n]
            IN  /\ notch[d.action] - notch[d.numbers.action] \in -1..1
                /\ d.by = "deterministic" => d.action = d.numbers.action
                /\ ~ d.scored => d.action = "WATCH"
                /\ d.conviction = d.numbers.conviction

\* A run makes no more calls than its budget, though calls fail, answers are
\* thrown away and names are given up half way (llm.py, CallBudget).
BudgetKept == calls <= CallLimit

\* A pack known to hold synthetic data never comes to a position: its conviction
\* is too small for the first gate of the sizing (agents.py, score_based_action;
\* sizing.py, size_position).
FakesNotSized ==
    advice.weight > 0 => ~ decisions[advice.name].synthetic

\* The name bought has changed its sector since it was first bought: sizing asks
\* for the sector of today, a position keeps its own.
Moved(n) == Held(n) /\ positions[n].sector # stored[n].sector

\* The purchase makes speculation of what was held of the name: sizing has counted
\* only the purchase.
Relabelled(n) == Held(n) /\ positions[n].strategy \notin Speculative

\* The shares cost more than when the thesis was written, whose entry price the
\* advised weight was divided by.
Repriced(n) == LatestPrice(n) > decisions[n].levels.entry

\* What slippage and commission can take of the largest position, in hundredths
\* of a percent of the portfolio.
Slack == ((SlippageRate + CommissionRate + 1) * MaxPosition) \div 10000

\* The limits after the advice is followed.
WithinLimits ==
    LET n == advice.name
    IN  \/ Repriced(n)
        \/ /\ 10000 * cash' >= (MinCash - Slack) * TotalValue'
           /\ \A s \in {positions'[m].sector : m \in DOMAIN positions'} :
                 \/ Worth(InSector(s))' <= Worth(InSector(s))
                 \/ Taken(InSector(s))' <= MaxSector + Slack
                 \/ Moved(n)
           /\ \/ Worth(Speculated)' <= Worth(Speculated)
              \/ Taken(Speculated)' <= MaxSpeculative + Slack
              \/ Relabelled(n)

\* Bought one after another at the price they were sized at, the advised sizes
\* miss the cash buffer by no more than what the orders cost, and fill neither a
\* sector nor speculation beyond its limit and that, but for a name that has
\* changed its sector or its label (sizing.py, size_position, whose weights leave
\* nothing for the costs; paper_trading.py, execute_trade).
LimitsHold == [][Follow => WithinLimits]_vars

\* What the page publishes is no better than what it rests on: a confidence at
\* most the score's, a fair value only among methods that agree (rating.py,
\* derive_rating; valuation.py, blended_valuation).
PageGrounded ==
    page # NoPage =>
        /\ page.rating.available =>
              \/ page.rating.confidence = "LOW"
              \/ ConfidenceRank[page.rating.confidence] <= ConfidenceRank[page.alpha.confidence]
        /\ Known(page.valuation.fair) =>
              /\ page.valuation.fair \in page.valuation.low .. page.valuation.high
              /\ 2 * page.valuation.high <= 5 * page.valuation.low

\* config/risk.yaml: no single name above a fifth of the portfolio, nor taken
\* there by a purchase at the price it was sized at.
PositionCapKept ==
    [][Follow =>
          \A n \in {advice.name} : Taken({n})' <= MaxPosition + Slack \/ Repriced(n)]_vars
==============================================================================
