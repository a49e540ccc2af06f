----------------------------- MODULE PaperTrading -----------------------------
(***************************************************************************)
(* The paper portfolio (src/backend/portfolio/paper_trading.py): simulated *)
(* orders with commission and slippage, long and short positions, and the  *)
(* two ways the program values the portfolio, mark_to_market over the      *)
(* stored positions and backfill_snapshots over the trade ledger.          *)
(*                                                                         *)
(* Here an order is one step; PaperOrders lets two requests overlap.       *)
(* Money and prices are integers: slippage and commission are rounded down *)
(* and stored in the trade, as the code stores its floats, and an order    *)
(* whose new average price is no integer is left out (OnGrid).  Left out   *)
(* too: dates (orders are executed today), the snapshot table, strategy,   *)
(* sector and thesis labels, portfolio weights and the 1e-6/1e-9 float     *)
(* tolerances.                                                             *)
(***************************************************************************)
EXTENDS Integers, SequencesExt

CONSTANTS
    Tickers,
    Prices,             \* prices of bars, and those a caller may name
    Quantities,
    InitialCapital,
    SlippageRate,       \* both rates are in parts of Unit
    CommissionRate,
    Unit,
    MaxTrades           \* bound: length of the ledger

ASSUME PaperTradingAssumption ==
    /\ Prices \subseteq Nat \ {0}
    /\ Quantities \subseteq Nat \ {0}
    /\ {InitialCapital, SlippageRate, CommissionRate, MaxTrades} \subseteq Nat
    /\ Unit \in Nat \ {0}
    /\ SlippageRate < Unit
    /\ CommissionRate < Unit

VARIABLES
    bars,       \* bars[t]: the latest stored close of t, None when there is none
    book,       \* the portfolio's cash and its positions
    trades      \* the ledger, oldest first

vars == <<bars, book, trades>>

Sides == {"BUY", "SELL", "SHORT", "COVER"}
Directions == {"LONG", "SHORT"}
Keys == Tickers \X Directions
None == 0

Order == [ticker : Tickers, side : Sides, quantity : Quantities, price : Prices \cup {None}]

\* A position of quantity 0 is a row that does not exist.
Position == [quantity : Nat, average : Nat]
NoPosition == [quantity |-> 0, average |-> 0]

Book == [cash : Int, positions : [Keys -> Position]]

Trade == [ticker : Tickers, side : Sides, quantity : Nat \ {0},
          price : Nat, commission : Nat, realized : Int]

------------------------------------------------------------------------------
(* The fill of an order. *)

Pays(side) == side \in {"BUY", "COVER"}
Exits(side) == side \in {"SELL", "COVER"}

Direction(side) == IF side \in {"SHORT", "COVER"} THEN "SHORT" ELSE "LONG"

Key(o) == <<o.ticker, Direction(o.side)>>

\* The price the caller names, else the latest bar.
Reference(o) == IF o.price # None THEN o.price ELSE bars[o.ticker]

Slippage(price) == (price * SlippageRate) \div Unit

\* Slippage works against the trader.
FillPrice(o) ==
    IF Pays(o.side) THEN Reference(o) + Slippage(Reference(o))
                    ELSE Reference(o) - Slippage(Reference(o))

Commission(gross) == (gross * CommissionRate) \div Unit

Gross(o) == FillPrice(o) * o.quantity

\* What the order adds to the cash.
CashFlow(o) ==
    IF Pays(o.side) THEN - (Gross(o) + Commission(Gross(o)))
                    ELSE Gross(o) - Commission(Gross(o))

\* Mutants: the cash test leaves the commission out; any cover is accepted.
AcceptsGross(b, o) ==
    /\ Reference(o) > 0
    /\ Pays(o.side) => Gross(o) <= b.cash
    /\ Exits(o.side) => o.quantity <= b.positions[Key(o)].quantity

AcceptsAnyCover(b, o) ==
    /\ Reference(o) > 0
    /\ Pays(o.side) => b.cash + CashFlow(o) >= 0
    /\ o.side = "SELL" => o.quantity <= b.positions[Key(o)].quantity

\* The order has a price, and does not spend more cash, nor leave a larger
\* position, than there is.
Accepts(b, o) ==
    /\ Reference(o) > 0
    /\ Pays(o.side) => b.cash + CashFlow(o) >= 0
    /\ Exits(o.side) => o.quantity <= b.positions[Key(o)].quantity

\* The position after the order: an entry averages the price, an exit leaves
\* it, and the row goes with the last share.
Cost(p) == p.average * p.quantity

Entered(p, o) ==
    [quantity |-> p.quantity + o.quantity,
     average  |-> (Cost(p) + Gross(o)) \div (p.quantity + o.quantity)]

\* Bound: the new average is an integer.
OnGrid(p, o) ==
    Exits(o.side) \/ (Cost(p) + Gross(o)) % (p.quantity + o.quantity) = 0

\* Mutant: the exit re-averages the price with what it was sold for.
LeftReaveraged(p, o) ==
    IF p.quantity = o.quantity THEN NoPosition
    ELSE [quantity |-> p.quantity - o.quantity,
          average  |-> (Cost(p) - Gross(o)) \div (p.quantity - o.quantity)]

Left(p, o) ==
    IF p.quantity = o.quantity THEN NoPosition
    ELSE [p EXCEPT !.quantity = @ - o.quantity]

Filled(b, o) ==
    [cash |-> b.cash + CashFlow(o),
     positions |-> [b.positions EXCEPT
                        ![Key(o)] = IF Exits(o.side) THEN Left(@, o) ELSE Entered(@, o)]]

\* Mutant: the profit of a cover has the sign of a sale.
RealizedAsSale(b, o) ==
    IF ~ Exits(o.side) THEN 0
    ELSE (FillPrice(o) - b.positions[Key(o)].average) * o.quantity - Commission(Gross(o))

\* Only an exit realises profit or loss; its commission is part of it.
Realized(b, o) ==
    CASE o.side = "SELL" ->
            (FillPrice(o) - b.positions[Key(o)].average) * o.quantity - Commission(Gross(o))
      [] o.side = "COVER" ->
            (b.positions[Key(o)].average - FillPrice(o)) * o.quantity - Commission(Gross(o))
      [] OTHER -> 0

TradeOf(b, o) ==
    [ticker |-> o.ticker, side |-> o.side, quantity |-> o.quantity, price |-> FillPrice(o),
     commission |-> Commission(Gross(o)), realized |-> Realized(b, o)]

------------------------------------------------------------------------------
(* Actions. *)

Init ==
    /\ bars = [t \in Tickers |-> None]
    /\ book = [cash |-> InitialCapital, positions |-> [k \in Keys |-> NoPosition]]
    /\ trades = <<>>

\* Ingestion stores a newer bar.
IngestBar(t, price) ==
    /\ bars' = [bars EXCEPT ![t] = price]
    /\ UNCHANGED <<book, trades>>

ExecuteTrade(o) ==
    /\ Len(trades) < MaxTrades
    /\ Accepts(book, o)
    /\ OnGrid(book.positions[Key(o)], o)
    /\ book' = Filled(book, o)
    /\ trades' = Append(trades, TradeOf(book, o))
    /\ UNCHANGED bars

ClosePosition(t, direction) ==
    LET p == book.positions[<<t, direction>>]
    IN  /\ p.quantity > 0
        /\ ExecuteTrade([ticker |-> t, side |-> IF direction = "SHORT" THEN "COVER" ELSE "SELL",
                         quantity |-> p.quantity, price |-> None])

Next ==
    \/ \E t \in Tickers, price \in Prices : IngestBar(t, price)
    \/ \E o \in Order : ExecuteTrade(o)
    \/ \E t \in Tickers, direction \in Directions : ClosePosition(t, direction)

Spec == Init /\ [][Next]_vars

------------------------------------------------------------------------------
(* The two valuations. *)

Sign(direction) == IF direction = "SHORT" THEN -1 ELSE 1

Held(positions) == {k \in Keys : positions[k].quantity > 0}

\* A position without a price adds nothing.
MarketValue(positions) ==
    MapThenSumSet(LAMBDA k : Sign(k[2]) * bars[k[1]] * positions[k].quantity, Held(positions))

\* mark_to_market: from the stored positions.
TotalValue == book.cash + MarketValue(book.positions)

Priced == {k \in Held(book.positions) : bars[k[1]] # None}

UnrealizedPnL ==
    MapThenSumSet(LAMBDA k : Sign(k[2]) * (bars[k[1]] - book.positions[k].average)
                                        * book.positions[k].quantity,
                  Priced)

RealizedPnL == MapThenSumSet(LAMBDA i : trades[i].realized, DOMAIN trades)

\* backfill_snapshots: from the ledger, entry by entry.
Replayed(b, t) ==
    LET k == <<t.ticker, Direction(t.side)>>
        p == b.positions[k]
        gross == t.price * t.quantity
    IN  [cash |-> IF Pays(t.side) THEN b.cash - (gross + t.commission)
                                  ELSE b.cash + (gross - t.commission),
         positions |-> [b.positions EXCEPT ![k] =
            IF Exits(t.side) THEN [p EXCEPT !.quantity = @ - t.quantity]
            ELSE [quantity |-> p.quantity + t.quantity,
                  average |-> (Cost(p) + gross) \div (p.quantity + t.quantity)]]]

Replay ==
    FoldLeft(Replayed,
             [cash |-> InitialCapital, positions |-> [k \in Keys |-> NoPosition]],
             trades)

ReplayValue == Replay.cash + MarketValue(Replay.positions)

------------------------------------------------------------------------------
(* Properties. *)

\* Every value the program stores has its type; no position is negative.
TypeOK ==
    /\ bars \in [Tickers -> Prices \cup {None}]
    /\ book \in Book
    /\ trades \in Seq(Trade)

\* The cash test of BUY and COVER covers the commission too, and no other
\* order takes cash out: the portfolio is never overdrawn, whatever the orders.
CashNeverNegative == book.cash >= 0

\* The ledger explains the portfolio: replaying it, as backfill_snapshots does,
\* gives the cash, the open positions with their average prices and the value
\* that mark_to_market finds in the stored rows.
ReplayAgrees ==
    /\ Replay.cash = book.cash
    /\ \A k \in Keys :
          /\ Replay.positions[k].quantity = book.positions[k].quantity
          /\ book.positions[k].quantity > 0 => Replay.positions[k] = book.positions[k]
    /\ ReplayValue = TotalValue

EntryCommissions ==
    MapThenSumSet(LAMBDA i : trades[i].commission,
                  {i \in DOMAIN trades : ~ Exits(trades[i].side)})

\* The figures mark_to_market reports together add up: once every position has
\* a price, the gain of the portfolio is the realised and the unrealised
\* profit less what entering cost.
ProfitsReconcile ==
    Priced = Held(book.positions) =>
        TotalValue - InitialCapital = RealizedPnL + UnrealizedPnL - EntryCommissions
==============================================================================
