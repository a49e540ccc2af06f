------------------------------- MODULE MCHistory ------------------------------
(* A small instance of History for TLC. *)
EXTENDS History

CONSTANTS n1, n2, n3, ix

Names3 == <<n1, n2, n3>>
SharesOfAll == n1 :> 10 @@ n2 :> 10 @@ n3 :> 10
VolatilityOfAll == n1 :> 25 @@ n2 :> 30 @@ n3 :> 20

\* A bar of a day; partial bars have neither range nor volume.
Bar(day, close, whole) ==
    [day |-> day, close |-> close, adjusted |-> IF whole THEN close - 1 ELSE NA,
     open |-> IF whole THEN close ELSE NA, high |-> IF whole THEN close + 2 ELSE NA,
     low |-> IF whole THEN close - 2 ELSE NA, volume |-> IF whole THEN 100 ELSE NA]

BarsOf(closes, whole) == [i \in DOMAIN closes |-> Bar(i, closes[i], whole)]

Exchange == [name |-> "yahoo", fake |-> FALSE, confidence |-> "HIGH",
             prices |-> n1 :> BarsOf(<<100, 108, 104, 113, 118>>, TRUE)
                        @@ n2 :> (BarsOf(<<100, 92>>, TRUE) \o <<Bar(2, 95, TRUE), Bar(5, 80, TRUE)>>)
                        @@ ix :> BarsOf(<<50, 51, 50, 53, 52>>, FALSE)]
Export == [name |-> "csv", fake |-> FALSE, confidence |-> "HIGH",
           prices |-> n1 :> BarsOf(<<101, NA, 104, 112>>, FALSE)
                      @@ n3 :> BarsOf(<<100, 101, 105, 104, 107>>, FALSE)]
Demo == [name |-> "synthetic", fake |-> TRUE, confidence |-> "UNVERIFIED",
         prices |-> n2 :> BarsOf(<<90, 95, 99, 104, 110>>, TRUE)
                    @@ n3 :> BarsOf(<<60, 66, 60, 66, 60>>, TRUE)]
ThreeProviders == <<Exchange, Export, Demo>>

\* A bulletin without a range: n1 over a whole bar of another source, n2 twice,
\* over a synthetic bar or first, and a code that is not covered.
Row(name, close) == [name |-> name, open |-> NA, high |-> NA, low |-> NA, close |-> close, volume |-> 90]
OneBulletin == {[day |-> 3, rows |-> <<Row(n1, 105), Row(n2, 98), Row(n2, 99), Row("XYZ", 7)>>]}

\* Figures of a year: k of them for every hundred of revenue.
Figures(revenue, k) ==
    [revenue |-> revenue, gross |-> (50 * revenue) \div 100, ebitda |-> (k * revenue) \div 100,
     operating |-> (k * revenue) \div 100, net |-> (k * revenue) \div 125, eps |-> (k * revenue) \div 1250,
     cash |-> revenue \div 4, debt |-> revenue \div 10, equity |-> revenue,
     ocf |-> (k * revenue) \div 100, capex |-> revenue \div 20, fcf |-> NA,
     interest |-> revenue \div 100, current_assets |-> revenue, current_liabilities |-> revenue \div 2,
     dividends |-> revenue \div 20]

Filing(period, end, available, revenue, k) ==
    Figures(revenue, k) @@ [period |-> period, end |-> end, available |-> available]

First == [n \in {n1, n2} |-> IF n = n1 THEN <<Filing("FY1", 0, 1, 1000, 30)>>
                             ELSE <<Filing("FY1", 0, 1, 1000, 10), Filing("FY2", 1, 3, 1200, 45)>>]
Restated == [n \in {n1} |-> <<Filing("FY1", 0, NA, 1000, 5), Filing("FY2", 2, NA, 900, 5)>>]
Repeated == [n \in {n1, n2} |-> IF n = n1 THEN <<Filing("FY3", 2, 3, 1000, 30), Filing("FY3", 2, 3, 990, 30)>>
                                ELSE First[n]]

Filer == [name |-> "csv", fake |-> FALSE, confidence |-> "HIGH", filings |-> <<First, Restated, Repeated>>]
OneFiler == <<Filer>>

FewOutages == {{}, {1}, {1, 2}}

TwoFeeds == {<<"a">>, <<"b", "b">>}

Strategy(kind, top_n, weighted, rebalance) ==
    [kind |-> kind, top_n |-> top_n, min_score |-> NA, score_weighted |-> weighted,
     max_weight |-> 5000, invested |-> 9500, rebalance |-> rebalance]
AllStrategies ==
    {Strategy("fundamental_long", 2, TRUE, 1), Strategy("momentum", 3, TRUE, 2),
     Strategy("technical_swing", 2, FALSE, 1), Strategy("multi_factor", 2, TRUE, 1),
     [Strategy("buy_and_hold", 3, FALSE, 2) EXCEPT !.min_score = 1, !.max_weight = 2000]}
==============================================================================
