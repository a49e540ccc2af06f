-------------------------------- MODULE History -------------------------------
(***************************************************************************)
(* The stored history and the backtests run on it.  Ingestion              *)
(* (src/backend/data/ingestion.py) adds to the history and corrects it     *)
(* from a chain of providers, and the Exchange's bulletins are imported    *)
(* from files (data/providers/egx_bulletin.py,                             *)
(* scripts/import_egx_bulletin.py); a backtest (engine.py) walks the       *)
(* trading days of the past, one after another, through a view of what is  *)
(* stored that is cut off at the day.  Both work at the same time, in      *)
(* sessions of their own: every read of the backtest sees the latest       *)
(* commit.                                                                 *)
(*                                                                         *)
(* today       the day                                                     *)
(* bars        name -> (day -> bar)                                        *)
(* statements  name -> (period -> statement)                               *)
(* items       the keys of the news and disclosures stored                 *)
(* test        the backtest: its strategy, its calendar and the place in   *)
(*             it, the book, the targets decided yesterday, the curve, the *)
(*             benchmark, the log of decisions                             *)
(* report      the backtest just kept, forgotten at the next step           *)
(*                                                                         *)
(* Bounds: LastDay days; one backtest at a time, in which a strategy fails *)
(* once at most.  Left out: a provider that is not configured is not in    *)
(* the chain.                                                              *)
(***************************************************************************)
EXTENDS Strategies, Execution, Performance, Ingestion

CONSTANTS
    Universe,           \* the names, in order
    Benchmark,          \* the index
    PriceProviders, FilingProviders,    \* the chains
    Bulletins,          \* what may be imported
    Feeds,              \* payloads of news: sequences of keys
    Tried,              \* the strategies tested
    Starts,             \* the days a backtest begins at
    Window,             \* days in which a statement is published at the latest
    Capital,
    FirstDay, LastDay,
    Outages             \* which price providers may fail at once

\* What a provider answers of a day; anything but the day may be missing too.
Payload == [day : (Nat \ {0}) \cup {NA}, open : Int, high : Int, low : Int, close : Int,
            adjusted : Int, volume : Int]

ASSUME HistoryAssumption ==
    /\ Universe \in Seq(Range(Universe)) /\ IsInjective(Universe)
    /\ PriceProviders \in Seq(Range(PriceProviders))
    /\ \A i \in DOMAIN PriceProviders :
          /\ PriceProviders[i].confidence \in Confidences
          /\ \A n \in DOMAIN PriceProviders[i].prices : PriceProviders[i].prices[n] \in Seq(Payload)
    /\ \A b \in Bulletins :
          /\ b.day \in Nat \ {0} /\ b.rows \in Seq(Range(b.rows))
          /\ \A i \in DOMAIN b.rows : b.rows[i].close \in Nat \ {0}
    /\ \A s \in Tried :
          /\ s.kind \in {"fundamental_long", "momentum", "technical_swing", "multi_factor", "buy_and_hold"}
          /\ {s.top_n, s.max_weight, s.invested} \subseteq Nat /\ s.min_score \in Int
    /\ Capital \in Nat /\ LastDay \in Nat /\ FirstDay \in 1..LastDay

VARIABLES today, bars, statements, items, test, report

stored == <<bars, statements, items>>
vars == <<today, bars, statements, items, test, report>>

Names == Range(Universe) \cup {Benchmark}

NoTest == [phase |-> "idle"]
NoReport == [strategy |-> "none"]

Init ==
    /\ today = FirstDay
    /\ bars = [n \in Names |-> <<>>]
    /\ statements = [n \in Range(Universe) |-> <<>>]
    /\ items = {}
    /\ test = NoTest /\ report = NoReport

NextDay ==
    /\ today < LastDay
    /\ today' = today + 1
    /\ report' = NoReport
    /\ UNCHANGED <<stored, test>>

------------------------------------------------------------------------------
(* Ingestion.  failed: the providers that raise, whatever they are asked.  *)

Asked(data, n) == IF n \in DOMAIN data THEN data[n] ELSE <<>>

PriceCall(n, failed) ==
    Call([i \in DOMAIN PriceProviders |->
            Keep(Asked(PriceProviders[i].prices, n), LAMBDA b : b.day <= today)], failed)

\* The names of an index do not include the benchmark.
IngestPrices(names, failed) ==
    /\ \E call \in {[n \in names |-> PriceCall(n, failed)]} :
          bars' = [n \in Names |->
                IF n \in names /\ call[n].from # 0
                THEN StoreBars(bars[n], call[n].data, PriceProviders[call[n].from])
                ELSE bars[n]]
    /\ report' = NoReport
    /\ UNCHANGED <<today, statements, items, test>>

\* A bulletin of the day or of an earlier one; codes outside the universe are
\* skipped.  The session does not flush in between: a name that comes twice, of
\* a day not stored before, is added twice, and the transaction is lost.
ImportBulletin(bulletin) ==
    /\ bulletin.day <= today
    /\ LET twice(n) == bulletin.day \notin DOMAIN bars[n] /\ Cardinality(RowsOf(bulletin, n)) > 1
           lost == \E n \in Names : twice(n)
       IN  bars' = [n \in Names |-> IF lost THEN bars[n] ELSE StoreBulletin(bars[n], bulletin, n)]
    /\ report' = NoReport
    /\ UNCHANGED <<today, statements, items, test>>

FilingCall(n, version, failed) ==
    Call([i \in DOMAIN FilingProviders |-> Asked(FilingProviders[i].filings[version], n)], failed)

\* A statement that is already stored is replaced by what is fetched now.  A
\* period that comes twice loses the transaction, the other names with it.
IngestFundamentals(version, failed) ==
    /\ \E call \in {[n \in Range(Universe) |-> FilingCall(n, version, failed)]} :
          LET periods(n) == [i \in DOMAIN call[n].data |-> call[n].data[i].period]
              lost == \E n \in Range(Universe) : Collides(DOMAIN statements[n], periods(n))
          IN  statements' = [n \in Range(Universe) |->
                    IF lost \/ call[n].from = 0 THEN statements[n]
                    ELSE StoreStatements(statements[n], call[n].data,
                                         FilingProviders[call[n].from], Window)]
    /\ report' = NoReport
    /\ UNCHANGED <<today, bars, items, test>>

\* News and disclosures are told apart by a key; one that is stored is skipped.
\* The session does not flush in between, so that a key that comes twice in a
\* payload is added twice, and the transaction is lost.
IngestItems(keys) ==
    /\ items' = IF Collides(items, keys) THEN items ELSE items \cup Range(keys)
    /\ report' = NoReport
    /\ UNCHANGED <<today, bars, statements, test>>

------------------------------------------------------------------------------
(* A backtest.                                                             *)

StartTest(strategy, start) ==
    /\ test = NoTest
    /\ LET calendar == TradingCalendar(bars, start, today)
       IN  /\ calendar # <<>>
           /\ test' = [phase |-> "running", strategy |-> strategy, calendar |-> calendar, at |-> 1,
                       due |-> RebalanceDates(calendar, strategy.rebalance),
                       book |-> NewBook(Capital), decided |-> FALSE, pending |-> <<>>,
                       curve |-> <<>>, index |-> <<>>, log |-> <<>>, fake |-> FALSE]
    /\ report' = NoReport
    /\ UNCHANGED <<today, stored>>

Day == test.calendar[test.at]

\* The first of the targets has a synthetic bar of the day.
FirstIsFake(targets, v) ==
    LET n == targets[1].name
    IN  targets # <<>> /\ v.as_of \in DOMAIN v.bars[n] /\ v.bars[n][v.as_of].fake

\* A day: yesterday's decision is executed at the price of the day, the book is
\* valued, and on a day of rebalancing, but the last, the strategy decides.  A
\* strategy that fails decides on nothing, and so to sell everything.
Walk(fails) ==
    /\ test.phase = "running" /\ test.at <= Len(test.calendar)
    /\ fails => \A i \in DOMAIN test.log : ~ test.log[i].failed
    /\ \E v \in {View(bars, statements, Day)} :
       \E book \in {IF test.decided THEN Rebalance(test.book, test.pending, v) ELSE test.book} :
          LET point(x) == [day |-> Day, value |-> x]
              decides == Day \in test.due /\ test.at < Len(test.calendar)
              walked == [test EXCEPT
                  !.at = @ + 1, !.book = book,
                  !.curve = Append(@, point(book.cash + MarketValue(v, book.holdings))),
                  !.index = IF Tradeable(v, Benchmark)
                            THEN Append(@, point(PriceOn(v, Benchmark))) ELSE @]
          IN  \/ /\ ~ decides /\ ~ fails
                 /\ test' = [walked EXCEPT !.decided = FALSE, !.pending = <<>>]
              \/ /\ decides
                 /\ \E targets \in {IF fails THEN <<>> ELSE Targets(test.strategy, v, Universe)} :
                       test' = [walked EXCEPT
                           !.decided = TRUE, !.pending = targets,
                           !.log = Append(@, [day |-> Day, targets |-> targets, failed |-> fails]),
                           !.fake = @ \/ FirstIsFake(targets, v)]
    /\ report' = NoReport
    /\ UNCHANGED <<today, stored>>

\* Whether some bar of one of the first three names is synthetic: any one bar
\* of each is looked at.
SeenFake(seen) ==
    LET looked == {Universe[i] : i \in 1..Min({3, Len(Universe)})}
        among(n) == {bars[n][d].fake : d \in DOMAIN bars[n]}
    IN  IF seen THEN \E n \in looked : TRUE \in among(n)
        ELSE \A n \in looked : among(n) # {TRUE}

\* Everything is sold at the last close, and the result is kept.
Finish(seen) ==
    /\ test.phase = "running" /\ test.at > Len(test.calendar)
    /\ SeenFake(seen)
    /\ LET last == test.calendar[Len(test.calendar)]
           book == Rebalance(test.book, <<>>, View(bars, statements, last))
           curve == IF test.book.holdings = <<>> THEN test.curve
                    ELSE [test.curve EXCEPT ![Len(test.curve)].value = book.cash]
       IN  report' = [strategy |-> test.strategy.kind, fake |-> test.fake \/ seen,
                      book |-> book, rebalances |-> Len(test.log),
                      measured |-> Measured(curve, test.index, book.trades)]
    /\ test' = NoTest
    /\ UNCHANGED <<today, stored>>

Next ==
    \/ NextDay
    \/ \E names \in {Names, Range(Universe)}, failed \in Outages :
          IngestPrices(names, failed)
    \/ \E bulletin \in Bulletins : ImportBulletin(bulletin)
    \/ \E version \in DOMAIN FilingProviders[1].filings, failed \in SUBSET DOMAIN FilingProviders :
          IngestFundamentals(version, failed)
    \/ \E keys \in Feeds : IngestItems(keys)
    \/ \E strategy \in Tried, start \in Starts : StartTest(strategy, start)
    \/ \E fails \in BOOLEAN : Walk(fails)
    \/ \E seen \in BOOLEAN : Finish(seen)

Spec == Init /\ [][Next]_vars

------------------------------------------------------------------------------
(* Properties.                                                             *)

\* The types of the state.
TypeOK ==
    /\ today \in FirstDay..LastDay
    /\ \A n \in Names, d \in UNION {DOMAIN bars[m] : m \in Names} :
          d \in DOMAIN bars[n] => d \in 1..today /\ bars[n][d].confidence \in Confidences
    /\ DOMAIN statements = Range(Universe)
    /\ test # NoTest => test.at \in 1..(Len(test.calendar) + 1)

\* However often prices are fetched and bulletins imported, a stored bar stays,
\* and no writer lowers its confidence.  At the same confidence a provider's
\* record takes its place only if it is more complete (ingestion.py: "Historical
\* data is never destroyed"); a bulletin's always does, poorer or not
\* (test_egx_bulletin.py, "reimporting the same day updates").
ConfidenceNeverDrops ==
    [][ \A n \in Names : \A d \in DOMAIN bars[n] :
          LET old == bars[n][d]
              new == bars'[n][d]
          IN  /\ d \in DOMAIN bars'[n]
              /\ \/ new = old
                 \/ ConfidenceRank[new.confidence] > ConfidenceRank[old.confidence]
                 \/ /\ ConfidenceRank[new.confidence] = ConfidenceRank[old.confidence]
                    /\ Filled(new) > Filled(old) \/ new.source = "EGX:bulletin" ]_vars

\* What a database would hold that had only what was public on a day.
Past(day) == [n \in DOMAIN bars |-> Restrict(bars[n], {d \in DOMAIN bars[n] : d <= day})]
Filed(day) ==
    [n \in DOMAIN statements |->
        Restrict(statements[n], {p \in DOMAIN statements[n] : statements[n][p].available <= day})]

\* A decision about a day is the one a strategy makes on a database that holds
\* only what was public on the day: whatever has been ingested since, before the
\* backtest or in the middle of it (point_in_time.py: "there is no method that
\* would return future data").
NoLookAhead ==
    [][ test # NoTest /\ test' # NoTest /\ Len(test'.log) > Len(test.log) =>
          LET decision == test'.log[Len(test'.log)]
              past == View(Past(decision.day), Filed(decision.day), decision.day)
          IN  ~ decision.failed =>
                decision.targets = Targets(test.strategy, past, Universe) ]_vars

\* Targets keep the cap of a position and the share that is invested, though
\* what is over the cap is handed to the others (strategies.py, target_weights).
TargetsCapped ==
    test # NoTest =>
        /\ \A i \in DOMAIN test.pending : test.pending[i].weight <= test.strategy.max_weight
        /\ SumFunction([i \in DOMAIN test.pending |-> test.pending[i].weight])
              <= test.strategy.invested

\* The trades of a backtest explain its cash: what it began with, the profits
\* of what was sold, less the commissions of buying, which no trade shows, and
\* what was paid for what is held.  The cash is never negative
\* (engine.py, _rebalance).
Explained(book) ==
    /\ book.cash >= 0
    /\ book.cash = Capital
                    + SumFunction([i \in DOMAIN book.trades |-> book.trades[i].pnl])
                    - book.fees
                    - SumFunction([n \in DOMAIN book.holdings |-> book.holdings[n].cost])

TradesExplainCash ==
    /\ test # NoTest => Explained(test.book)
    /\ report # NoReport => Explained(report.book)
==============================================================================
