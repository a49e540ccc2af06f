-------------------------------- MODULE MCDesk --------------------------------
(* A small instance of Desk for TLC. *)
EXTENDS Desk

CONSTANTS n1, n2, n3, n4

\* Closes with highs and lows one around them.
Bars(closes, volume, fake) ==
    [i \in DOMAIN closes |-> [day |-> i, open |-> closes[i], high |-> closes[i] + 1,
                              low |-> closes[i] - 1, close |-> closes[i],
                              volume |-> volume, fake |-> fake]]

Rising == <<80, 86, 84, 92, 90, 96, 94, 100>>
Dearer == <<82, 88, 86, 94, 92, 98, 96, 104>>
Falling == <<100, 94, 96, 90, 92, 84, 86, 80>>

\* Figures of a year: k of them for every hundred of revenue.
Statement(revenue, k, fake) ==
    [revenue |-> revenue, gross |-> (50 * revenue) \div 100, ebitda |-> (k * revenue) \div 100,
     operating |-> (k * revenue) \div 100, net |-> (k * revenue) \div 125, eps |-> (k * revenue) \div 1250,
     cash |-> revenue \div 4, debt |-> revenue \div 10, equity |-> revenue,
     ocf |-> (k * revenue) \div 100, capex |-> revenue \div 20, fcf |-> NA,
     interest |-> revenue \div 100, current_assets |-> revenue, current_liabilities |-> revenue \div 2,
     dividends |-> revenue \div 20, fake |-> fake]

Dossier(closes, statements, events, volume, fake) ==
    [bars |-> Bars(closes, volume, fake), statements |-> statements, shares |-> 10,
     sector |-> "banks", events |-> events, sentiment |-> NA, volatility |-> 25,
     history |-> <<1200, 1000, 1100>>, price_age |-> 1, statement_age |-> 30, period_age |-> 90]


News(kind, age, fake) == [kind |-> kind, importance |-> 4, age |-> age, fake |-> fake]
Years(k, l) == <<Statement(1000, k, FALSE), Statement(800, l, FALSE)>>

Strong == Dossier(Rising, Years(40, 35), <<News("BUYBACK", 10, FALSE)>>, 2, FALSE)
Swing == Dossier(Rising, Years(18, 16), <<>>, 2, FALSE)
Poor == Dossier(Falling, <<Statement(800, -5, FALSE), Statement(1200, 20, FALSE)>>,
                <<News("MISC", 100, FALSE)>>, 1, FALSE)
Bare == [Dossier(Rising, <<>>, <<>>, 1, FALSE) EXCEPT !.price_age = 9]
Demo == [Strong EXCEPT !.bars = Bars(Rising, 2, TRUE)]

\* What is stored later has n1 in another sector and news of n4, or n4 falling.
Universe(a, b, c) == (n1 :> a) @@ (n2 :> b) @@ (n3 :> [Swing EXCEPT !.sector = "energy"]) @@ (n4 :> c)
Relocated == [Strong EXCEPT !.sector = "industry", !.bars = Bars(Dearer, 2, FALSE)]
Newsy == [Swing EXCEPT !.events = Strong.events, !.statements = Years(22, 18)]
SomeUniverses == {Universe(Strong, Demo, Swing), Universe(Relocated, Bare, Newsy), Universe(Strong, Bare, Poor)}

Index == Bars(<<50, 51, 50, 52, 51, 52, 53, 54>>, NA, FALSE)

Answer(kind, facts, stated) == [kind |-> kind, facts |-> facts, stated |-> stated, invented |-> FALSE]
FewAnswers == {Answer("error", {}, Unstated), Answer("tagged", {"momentum_3m"}, "SELL"),
               Answer("tagged", {"momentum_3m"}, "HOLD")}
\* Most of the capital in another sector, or much of it in theirs.
LargeOrders == {[name |-> n3, quantity |-> 875], [name |-> n2, quantity |-> 250]}
\* Figures that last: bought for the long term, and sized the same each time.
Quiet == [Strong EXCEPT !.events = <<>>, !.bars = Bars(Rising, 40, FALSE)]
QuietUniverse == {Universe(Quiet, Bare, Swing)}

TwoRequests == {[names |-> {n1, n2}, min_score |-> 20, limit |-> 2],
                [names |-> {n4}, min_score |-> NA, limit |-> 1]}
==============================================================================
