-------------------------- MODULE PaperTradingProofs --------------------------
(***************************************************************************)
(* For every set of tickers, prices and quantities, every capital and      *)
(* every pair of rates below one: the portfolio keeps its types and is     *)
(* never overdrawn, the ledger replayed gives back the portfolio, and the  *)
(* figures of mark_to_market add up.                                       *)
(***************************************************************************)
EXTENDS PaperTrading, FiniteSetTheorems, TLAPS

(***************************************************************************)
(* A part of a whole, rounded down, is a natural number not above it.      *)
(***************************************************************************)
LEMMA PartOfWhole ==
    ASSUME NEW x \in Nat, NEW rate \in Nat, rate < Unit
    PROVE  (x * rate) \div Unit \in Nat /\ (x * rate) \div Unit <= x
<1>1. Unit \in Nat /\ Unit > 0  BY PaperTradingAssumption
<1>2. PICK p \in Nat : p = x * rate  OBVIOUS
<1>3. PICK w \in Nat : w = x * Unit  BY <1>1
<1>4. p <= w
  <2>1. Unit - rate \in Nat  BY <1>1
  <2>2. x * (Unit - rate) \in Nat  BY <2>1
  <2>3. x * (Unit - rate) = x * Unit - x * rate  BY <1>1
  <2> QED  BY <1>2, <1>3, <2>2, <2>3
<1>5. p \div Unit \in Nat  BY <1>1
<1>6. Unit * (p \div Unit) <= p  BY <1>1
<1>7. p \div Unit <= x
  <2> SUFFICES ASSUME p \div Unit >= x + 1 PROVE FALSE  BY <1>5
  <2> DEFINE q == p \div Unit
  <2>1. q \in Nat /\ q >= x + 1  BY <1>5
  <2>2. Unit * q <= Unit * x  BY <1>1, <1>3, <1>4, <1>6
  <2> HIDE DEF q
  <2>3. PICK d \in Nat : q = x + 1 + d  BY <2>1
  <2>4. Unit * (x + 1 + d) = Unit * x + Unit + Unit * d  BY <1>1
  <2>5. Unit * d \in Nat /\ Unit * x \in Nat  BY <1>1
  <2> QED  BY <1>1, <2>2, <2>3, <2>4, <2>5
<1> QED  BY <1>2, <1>5, <1>7

(***************************************************************************)
(* An order of any size: ClosePosition sells whatever is held.             *)
(***************************************************************************)
AnyOrder == [ticker : Tickers, side : Sides, quantity : Nat \ {0},
             price : Prices \cup {None}]

LEMMA OrdersAreOrders == Order \subseteq AnyOrder
  BY PaperTradingAssumption DEF Order, AnyOrder

(***************************************************************************)
(* An accepted order has a natural fill price and gross value, and its     *)
(* commission is no more than the gross value.                             *)
(***************************************************************************)
LEMMA FillTypes ==
    ASSUME bars \in [Tickers -> Prices \cup {None}],
           NEW o \in AnyOrder, Reference(o) > 0
    PROVE  /\ o.ticker \in Tickers /\ o.side \in Sides /\ o.quantity \in Nat \ {0}
           /\ Key(o) \in Keys
           /\ FillPrice(o) \in Nat
           /\ Gross(o) \in Nat
           /\ Commission(Gross(o)) \in Nat
           /\ Commission(Gross(o)) <= Gross(o)
<1>1. o.ticker \in Tickers /\ o.side \in Sides /\ o.quantity \in Nat \ {0}
  BY PaperTradingAssumption DEF AnyOrder
<1>2. Key(o) \in Keys  BY <1>1 DEF Key, Keys, Direction, Directions
<1>3. Reference(o) \in Nat
  BY <1>1, PaperTradingAssumption DEF AnyOrder, Reference, None
<1>4. Slippage(Reference(o)) \in Nat /\ Slippage(Reference(o)) <= Reference(o)
  BY <1>3, PartOfWhole, PaperTradingAssumption DEF Slippage
<1>5. FillPrice(o) \in Nat  BY <1>3, <1>4 DEF FillPrice
<1>6. Gross(o) \in Nat  BY <1>1, <1>5 DEF Gross
<1>7. Commission(Gross(o)) \in Nat /\ Commission(Gross(o)) <= Gross(o)
  BY <1>6, PartOfWhole, PaperTradingAssumption DEF Commission
<1> QED  BY <1>1, <1>2, <1>5, <1>6, <1>7

(***************************************************************************)
(* An accepted order keeps the types of the book, gives a trade of the     *)
(* type of the ledger, and leaves the cash at or above zero.               *)
(***************************************************************************)
LEMMA FilledBook ==
    ASSUME bars \in [Tickers -> Prices \cup {None}],
           NEW b \in Book, b.cash >= 0, NEW o \in AnyOrder, Accepts(b, o)
    PROVE  Filled(b, o) \in Book /\ Filled(b, o).cash >= 0 /\ TradeOf(b, o) \in Trade
<1> DEFINE k == Key(o)
           p == b.positions[k]
<1>1. /\ o.ticker \in Tickers /\ o.side \in Sides /\ o.quantity \in Nat \ {0}
      /\ k \in Keys
      /\ FillPrice(o) \in Nat /\ Gross(o) \in Nat
      /\ Commission(Gross(o)) \in Nat /\ Commission(Gross(o)) <= Gross(o)
  BY FillTypes DEF Accepts
<1>2. b.cash \in Int /\ p \in Position /\ b.positions \in [Keys -> Position]
  BY <1>1 DEF Book
<1>3. p.quantity \in Nat /\ p.average \in Nat  BY <1>2 DEF Position
<1>4. CashFlow(o) \in Int /\ b.cash + CashFlow(o) >= 0
  BY <1>1, <1>2 DEF CashFlow, Accepts
<1>5. Exits(o.side) => Left(p, o) \in Position
  <2> SUFFICES ASSUME Exits(o.side) PROVE Left(p, o) \in Position  OBVIOUS
  <2>1. o.quantity <= p.quantity  BY DEF Accepts
  <2>2. p.quantity - o.quantity \in Nat  BY <1>1, <1>3, <2>1
  <2> QED  BY <1>2, <2>2 DEF Left, NoPosition, Position
<1>6. Entered(p, o) \in Position
  <2>1. Cost(p) \in Nat  BY <1>3 DEF Cost
  <2>2. Cost(p) + Gross(o) \in Nat /\ p.quantity + o.quantity \in Nat \ {0}
    BY <1>1, <1>3, <2>1
  <2>3. (Cost(p) + Gross(o)) \div (p.quantity + o.quantity) \in Nat  BY <2>2
  <2> QED  BY <2>2, <2>3 DEF Entered, Position
<1>7. (IF Exits(o.side) THEN Left(p, o) ELSE Entered(p, o)) \in Position  BY <1>5, <1>6
<1>8. Filled(b, o) \in Book /\ Filled(b, o).cash = b.cash + CashFlow(o)
  BY <1>1, <1>2, <1>4, <1>7 DEF Filled, Book
<1>9. Realized(b, o) \in Int
  <2>1. (FillPrice(o) - p.average) * o.quantity - Commission(Gross(o)) \in Int
    BY <1>1, <1>3
  <2>2. (p.average - FillPrice(o)) * o.quantity - Commission(Gross(o)) \in Int
    BY <1>1, <1>3
  <2> QED  BY <1>1, <2>1, <2>2 DEF Realized, Sides
<1>10. TradeOf(b, o) \in Trade  BY <1>1, <1>9 DEF TradeOf, Trade
<1> QED  BY <1>4, <1>8, <1>10

(***************************************************************************)
(* The inductive invariant: the types, which an order keeps only because   *)
(* an exit is no larger than the position, and the cash.                   *)
(***************************************************************************)
BookInv == TypeOK /\ CashNeverNegative

LEMMA BookInvInit == Init => BookInv
<1> SUFFICES ASSUME Init PROVE BookInv  OBVIOUS
<1>1. NoPosition \in Position  BY DEF NoPosition, Position
<1>2. InitialCapital \in Nat  BY PaperTradingAssumption
<1> QED  BY <1>1, <1>2 DEF Init, BookInv, TypeOK, CashNeverNegative, Book, None

LEMMA ExecuteTradeKeeps ==
    ASSUME BookInv, NEW o \in AnyOrder, ExecuteTrade(o)
    PROVE  BookInv'
<1>1. /\ Filled(book, o) \in Book /\ Filled(book, o).cash >= 0
      /\ TradeOf(book, o) \in Trade
  BY FilledBook DEF BookInv, TypeOK, CashNeverNegative, ExecuteTrade
<1>2. trades' \in Seq(Trade)  BY <1>1 DEF BookInv, TypeOK, ExecuteTrade
<1> QED  BY <1>1, <1>2 DEF BookInv, TypeOK, CashNeverNegative, ExecuteTrade

\* Closing a position is an order for all its shares.
LEMMA ClosingIsAnOrder ==
    ASSUME BookInv, NEW t \in Tickers, NEW direction \in Directions, ClosePosition(t, direction)
    PROVE  \E o \in AnyOrder : ExecuteTrade(o)
<1>1. PICK p \in Position : p = book.positions[<<t, direction>>]
  BY DEF BookInv, TypeOK, Book, Keys
<1>2. p.quantity \in Nat \ {0}  BY <1>1 DEF ClosePosition, Position
<1>3. PICK side \in Sides : side = IF direction = "SHORT" THEN "COVER" ELSE "SELL"
  BY DEF Sides
<1> DEFINE o == [ticker |-> t, side |-> side, quantity |-> p.quantity, price |-> None]
<1>4. o \in AnyOrder  BY <1>2, <1>3 DEF AnyOrder
<1>5. ExecuteTrade(o)  BY <1>1, <1>3 DEF ClosePosition
<1> QED  BY <1>4, <1>5

LEMMA BookInvStep == BookInv /\ [Next]_vars => BookInv'
<1> SUFFICES ASSUME BookInv, [Next]_vars PROVE BookInv'  OBVIOUS
<1>1. ASSUME NEW t \in Tickers, NEW price \in Prices, IngestBar(t, price)
      PROVE  BookInv'
  BY <1>1 DEF BookInv, TypeOK, CashNeverNegative, IngestBar
<1>2. ASSUME NEW o \in Order, ExecuteTrade(o) PROVE BookInv'
  BY <1>2, OrdersAreOrders, ExecuteTradeKeeps
<1>3. ASSUME NEW t \in Tickers, NEW direction \in Directions, ClosePosition(t, direction)
      PROVE  BookInv'
  <2>1. PICK o \in AnyOrder : ExecuteTrade(o)  BY <1>3, ClosingIsAnOrder
  <2> QED  BY <2>1, ExecuteTradeKeeps
<1>4. CASE UNCHANGED vars  BY <1>4 DEF vars, BookInv, TypeOK, CashNeverNegative
<1> QED  BY <1>1, <1>2, <1>3, <1>4 DEF Next

(***************************************************************************)
(* Every reachable state is well typed and the portfolio is never          *)
(* overdrawn: the cash test of execute_trade and the size test of an exit  *)
(* are enough, at any rates below one.                                     *)
(***************************************************************************)
THEOREM NeverOverdrawn == Spec => [](TypeOK /\ CashNeverNegative)
<1>1. Spec => []BookInv  BY BookInvInit, BookInvStep, PTL DEF Spec
<1> QED  BY <1>1, PTL DEF BookInv

\* Cash, holdings and trades keep their types, so that no position is ever
\* left with a negative number of shares (execute_trade, _close_long).
COROLLARY BookTyped == Spec => []TypeOK
<1> QED  BY NeverOverdrawn, PTL

------------------------------------------------------------------------------
(* The ledger explains the portfolio.  Folding says what one more trade    *)
(* does to the replay of a ledger and to its totals; the terms summed are  *)
(* the profits, the commissions of the entries, the market values and the  *)
(* unrealised gains.                                                       *)

Ledger == INSTANCE Folding WITH Op <- LAMBDA c, b, t : Replayed(b, t),
                                Term <- LAMBDA c, i : c[i].realized
Entries == INSTANCE Folding WITH Op <- LAMBDA c, b, t : Replayed(b, t),
                                 Term <- LAMBDA c, i : c[i].commission
Market == INSTANCE Folding WITH Op <- LAMBDA c, b, t : Replayed(b, t),
                                Term <- LAMBDA c, k : Sign(k[2]) * bars[k[1]] * c[k].quantity
Gains == INSTANCE Folding WITH Op <- LAMBDA c, b, t : Replayed(b, t),
                               Term <- LAMBDA c, k : Sign(k[2]) * (bars[k[1]] - c[k].average)
                                                                * c[k].quantity

Total(f, S) == Ledger!SumFunctionOnSet(f, S)

\* The instances speak of the same finite sets and sums.
LEMMA LedgerSame ==
    /\ \A S : IsFiniteSet(S) <=> Ledger!IsFiniteSet(S)
    /\ \A f, S : Ledger!SumFunctionOnSet(f, S) = Total(f, S)
  BY DEF IsFiniteSet, Ledger!IsFiniteSet, Total, Ledger!SumFunctionOnSet, Ledger!FoldFunctionOnSet,
         Ledger!MapThenFoldSet

LEMMA EntriesSame ==
    /\ \A S : IsFiniteSet(S) <=> Entries!IsFiniteSet(S)
    /\ \A f, S : Entries!SumFunctionOnSet(f, S) = Total(f, S)
  BY DEF IsFiniteSet, Entries!IsFiniteSet, Total, Entries!SumFunctionOnSet, Entries!FoldFunctionOnSet,
         Entries!MapThenFoldSet,
         Ledger!SumFunctionOnSet, Ledger!FoldFunctionOnSet, Ledger!MapThenFoldSet

LEMMA MarketSame ==
    /\ \A S : IsFiniteSet(S) <=> Market!IsFiniteSet(S)
    /\ \A f, S : Market!SumFunctionOnSet(f, S) = Total(f, S)
  BY DEF IsFiniteSet, Market!IsFiniteSet, Total, Market!SumFunctionOnSet, Market!FoldFunctionOnSet,
         Market!MapThenFoldSet,
         Ledger!SumFunctionOnSet, Ledger!FoldFunctionOnSet, Ledger!MapThenFoldSet

LEMMA GainsSame ==
    /\ \A S : IsFiniteSet(S) <=> Gains!IsFiniteSet(S)
    /\ \A f, S : Gains!SumFunctionOnSet(f, S) = Total(f, S)
  BY DEF IsFiniteSet, Gains!IsFiniteSet, Total, Gains!SumFunctionOnSet, Gains!FoldFunctionOnSet,
         Gains!MapThenFoldSet,
         Ledger!SumFunctionOnSet, Ledger!FoldFunctionOnSet, Ledger!MapThenFoldSet

Opening == [cash |-> InitialCapital, positions |-> [k \in Keys |-> NoPosition]]
ReplayOf(ts) == Ledger!Folded(0, Opening, ts)

LEMMA ReplayIs == Replay = ReplayOf(trades)
  BY DEF Replay, ReplayOf, Opening, Ledger!Folded, FoldLeft, MapThenFoldSet, Max,
         Ledger!FoldLeft, Ledger!MapThenFoldSet, Ledger!Max

\* The totals of the figures mark_to_market reports.
Profits(ts) == Total([i \in DOMAIN ts |-> ts[i].realized], DOMAIN ts)
Entering(ts) == {i \in DOMAIN ts : ~ Exits(ts[i].side)}
EntryCosts(ts) == Total([i \in Entering(ts) |-> ts[i].commission], Entering(ts))

LEMMA LedgerFinite ==
    ASSUME NEW ts \in Seq(Trade)
    PROVE  IsFiniteSet(DOMAIN ts) /\ IsFiniteSet(Entering(ts))
<1>1. DOMAIN ts = 1 .. Len(ts) /\ Len(ts) \in Int  OBVIOUS
<1>2. IsFiniteSet(DOMAIN ts)  BY <1>1, FS_Interval
<1>3. Entering(ts) \in SUBSET DOMAIN ts  BY DEF Entering
<1> QED  BY <1>2, <1>3, FS_Subset

LEMMA ProfitsAre ==
    ASSUME trades \in Seq(Trade)
    PROVE  RealizedPnL = Profits(trades)
<1> DEFINE f == [i \in DOMAIN trades |-> trades[i].realized]
<1>1. RealizedPnL = Ledger!Summed(trades, DOMAIN trades)
  BY DEF RealizedPnL, Ledger!Summed, MapThenSumSet, MapThenFoldSet,
         Ledger!MapThenSumSet, Ledger!MapThenFoldSet
<1>2. IsFiniteSet(DOMAIN trades)  BY LedgerFinite
<1>3. \A i \in DOMAIN trades : f[i] = trades[i].realized  OBVIOUS
<1> HIDE DEF f
<1>4. Ledger!Summed(trades, DOMAIN trades) = Total(f, DOMAIN trades)
  BY <1>2, <1>3, LedgerSame, Ledger!SummedIs
<1> QED  BY <1>1, <1>4 DEF Profits, f

LEMMA EntryCostsAre ==
    ASSUME trades \in Seq(Trade)
    PROVE  EntryCommissions = EntryCosts(trades)
<1> DEFINE S == Entering(trades)
           f == [i \in S |-> trades[i].commission]
<1>1. EntryCommissions = Entries!Summed(trades, S)
  BY DEF EntryCommissions, Entering, Entries!Summed, MapThenSumSet, MapThenFoldSet,
         Entries!MapThenSumSet, Entries!MapThenFoldSet
<1>2. IsFiniteSet(S)  BY LedgerFinite
<1>3. \A i \in S : f[i] = trades[i].commission  OBVIOUS
<1> HIDE DEF f, S
<1>4. Entries!Summed(trades, S) = Total(f, S)
  BY <1>2, <1>3, EntriesSame, Entries!SummedIs
<1> QED  BY <1>1, <1>4 DEF EntryCosts, f, S

\* One more trade in the ledger.
LEMMA LedgerGrows ==
    ASSUME NEW ts \in Seq(Trade), NEW t \in Trade
    PROVE  /\ Profits(Append(ts, t)) = Profits(ts) + t.realized
           /\ EntryCosts(Append(ts, t)) = EntryCosts(ts) + (IF Exits(t.side) THEN 0 ELSE t.commission)
           /\ ReplayOf(Append(ts, t)) = Replayed(ReplayOf(ts), t)
           /\ Profits(ts) \in Int /\ EntryCosts(ts) \in Int
<1> DEFINE us == Append(ts, t)
           n == Len(ts) + 1
<1>1. /\ us \in Seq(Trade) /\ n \notin DOMAIN ts /\ DOMAIN us = DOMAIN ts \cup {n}
      /\ us[n] = t /\ \A i \in DOMAIN ts : us[i] = ts[i]
  OBVIOUS
<1> HIDE DEF us, n
<1>2. \A i \in DOMAIN us : us[i].realized \in Int /\ us[i].commission \in Int
  <2>1. \A i \in DOMAIN us : us[i] \in Trade  BY <1>1
  <2>2. \A e \in Trade : e.realized \in Int /\ e.commission \in Int  BY DEF Trade
  <2> QED  BY <2>1, <2>2
<1>3. /\ Profits(us) = Profits(ts) + t.realized
      /\ Profits(ts) \in Int
  <2> DEFINE f == [i \in DOMAIN ts |-> ts[i].realized]
             h == [i \in DOMAIN us |-> us[i].realized]
             R == DOMAIN us
             S == DOMAIN ts
  <2>1. R \ {n} = S \ {n} /\ n \in R /\ n \notin S  BY <1>1
  <2>2. \A x \in S : f[x] \in Int  BY <1>1, <1>2
  <2>3. \A x \in R : h[x] \in Int  BY <1>2
  <2>4. \A x \in S \ {n} : h[x] = f[x]  BY <1>1
  <2>5. h[n] = t.realized  BY <1>1
  <2>6. IsFiniteSet(S)  BY LedgerFinite
  <2>7. Profits(us) = Total(h, R) /\ Profits(ts) = Total(f, S)  BY DEF Profits
  <2> HIDE DEF f, h, R, S
  <2>8. Total(h, R) = Total(f, S) + (IF n \in R THEN h[n] ELSE 0) - (IF n \in S THEN f[n] ELSE 0)
    BY <2>1, <2>2, <2>3, <2>4, <2>6, LedgerSame, Ledger!SumMoves
  <2>9. Total(f, S) \in Int  BY <2>2, <2>6, LedgerSame, Ledger!SumInt
  <2>10. h[n] \in Int  BY <2>1, <2>3
  <2> QED  BY <2>1, <2>5, <2>7, <2>8, <2>9, <2>10
<1>4. /\ EntryCosts(us) = EntryCosts(ts) + (IF Exits(t.side) THEN 0 ELSE t.commission)
      /\ EntryCosts(ts) \in Int
  <2> DEFINE R == Entering(us)
             S == Entering(ts)
             f == [i \in S |-> ts[i].commission]
             h == [i \in R |-> us[i].commission]
  <2>1. R \ {n} = S \ {n} /\ n \notin S /\ (n \in R <=> ~ Exits(t.side))  BY <1>1 DEF Entering
  <2>2. \A x \in S : f[x] \in Int  BY <1>1, <1>2 DEF Entering
  <2>3. \A x \in R : h[x] \in Int  BY <1>2 DEF Entering
  <2>4. \A x \in S \ {n} : h[x] = f[x]  BY <1>1, <2>1 DEF Entering
  <2>5. n \in R => h[n] = t.commission  BY <1>1
  <2>6. IsFiniteSet(S)  BY LedgerFinite
  <2>7. EntryCosts(us) = Total(h, R) /\ EntryCosts(ts) = Total(f, S)  BY DEF EntryCosts
  <2> HIDE DEF f, h, R, S
  <2>8. Total(h, R) = Total(f, S) + (IF n \in R THEN h[n] ELSE 0) - (IF n \in S THEN f[n] ELSE 0)
    BY <2>1, <2>2, <2>3, <2>4, <2>6, LedgerSame, Ledger!SumMoves
  <2>9. Total(f, S) \in Int  BY <2>2, <2>6, LedgerSame, Ledger!SumInt
  <2>10. n \in R => h[n] \in Int  BY <2>3
  <2> QED  BY <2>1, <2>5, <2>7, <2>8, <2>9, <2>10
<1>5. ReplayOf(us) = Replayed(ReplayOf(ts), t)
  BY Ledger!FoldedAppend DEF us, ReplayOf
<1> QED  BY <1>3, <1>4, <1>5 DEF us

LEMMA LedgerStarts ==
    Profits(<<>>) = 0 /\ EntryCosts(<<>>) = 0 /\ ReplayOf(<<>>) = Opening
<1>1. DOMAIN <<>> = {} /\ Entering(<<>>) = {}  BY DEF Entering
<1>2. \A f : Total(f, {}) = 0  BY Ledger!SumEmpty DEF Total
<1>3. ReplayOf(<<>>) = Opening  BY Ledger!FoldedEmpty DEF ReplayOf
<1> QED  BY <1>1, <1>2, <1>3 DEF Profits, EntryCosts

------------------------------------------------------------------------------
(* What entering the open positions cost, the short ones counted against.  *)

CostOn(positions) == [k \in Keys |-> Sign(k[2]) * Cost(positions[k])]
Paid(positions) == Total(CostOn(positions), Held(positions))

LEMMA SignTypes == \A k \in Keys : Sign(k[2]) \in {-1, 1}
  BY DEF Keys, Directions, Sign

LEMMA CostTypes ==
    ASSUME NEW positions \in [Keys -> Position]
    PROVE  \A k \in Keys : CostOn(positions)[k] \in Int
<1> SUFFICES ASSUME NEW k \in Keys PROVE Sign(k[2]) * Cost(positions[k]) \in Int  BY DEF CostOn
<1>1. positions[k].average \in Nat /\ positions[k].quantity \in Nat  BY DEF Position
<1>2. Cost(positions[k]) \in Int  BY <1>1 DEF Cost
<1> QED  BY <1>2, SignTypes

LEMMA PaidMoves ==
    ASSUME NEW positions \in [Keys -> Position], IsFiniteSet(Held(positions)),
           NEW k \in Keys, NEW p \in Position
    PROVE  LET new == [positions EXCEPT ![k] = p]
           IN  /\ IsFiniteSet(Held(new))
               /\ Paid(positions) \in Int
               /\ Paid(new) = Paid(positions) + Sign(k[2]) * Cost(p)
                                              - Sign(k[2]) * Cost(positions[k])
<1> DEFINE new == [positions EXCEPT ![k] = p]
           S == Held(positions)
           R == Held(new)
           f == CostOn(positions)
           h == CostOn(new)
<1>1. new \in [Keys -> Position] /\ new[k] = p /\ \A x \in Keys \ {k} : new[x] = positions[x]
  OBVIOUS
<1> HIDE DEF new
<1>2. R \ {k} = S \ {k} /\ R \subseteq Keys /\ S \subseteq Keys  BY <1>1 DEF Held
<1>3. \A x \in Keys : f[x] \in Int /\ h[x] \in Int  BY <1>1, CostTypes
<1>4. \A x \in S \ {k} : h[x] = f[x]  BY <1>1, <1>2 DEF CostOn
<1>5. f[k] = Sign(k[2]) * Cost(positions[k]) /\ h[k] = Sign(k[2]) * Cost(p)
  BY <1>1 DEF CostOn
<1>6. (k \notin S => f[k] = 0) /\ (k \notin R => h[k] = 0)
  <2>1. ASSUME NEW q \in Position, ~ (q.quantity > 0) PROVE Cost(q) = 0
    BY <2>1 DEF Position, Cost
  <2>2. Sign(k[2]) \in Int  BY SignTypes
  <2>3. k \notin S => Cost(positions[k]) = 0  BY <2>1 DEF Held
  <2>4. k \notin R => Cost(p) = 0  BY <1>1, <2>1 DEF Held
  <2> QED  BY <1>5, <2>2, <2>3, <2>4
<1>7. IsFiniteSet(S)  OBVIOUS
<1> HIDE DEF S, R, f, h
<1>8. /\ IsFiniteSet(R)
      /\ Total(h, R) = Total(f, S) + (IF k \in R THEN h[k] ELSE 0) - (IF k \in S THEN f[k] ELSE 0)
  BY <1>2, <1>3, <1>4, <1>7, LedgerSame, Ledger!SumMoves
<1>9. Total(f, S) \in Int  BY <1>2, <1>3, <1>7, LedgerSame, Ledger!SumInt
<1>10. Total(h, R) = Total(f, S) + h[k] - f[k]  BY <1>3, <1>6, <1>8, <1>9
<1> QED  BY <1>5, <1>8, <1>9, <1>10 DEF Paid, S, R, f, h, new

------------------------------------------------------------------------------
(* An order, in the book, in the replay and in the figures.                *)

\* The rounding of an average is exact on the grid.
LEMMA ExactAverage ==
    ASSUME NEW x \in Nat, NEW n \in Nat \ {0}, x % n = 0
    PROVE  (x \div n) * n = x
<1>1. x = n * (x \div n) + (x % n)  OBVIOUS
<1>2. x \div n \in Int  OBVIOUS
<1>3. n * (x \div n) = (x \div n) * n  BY <1>2
<1> QED  BY <1>1, <1>2, <1>3

\* What the position cost after the order, and the cash.
LEMMA OrderBalances ==
    ASSUME bars \in [Tickers -> Prices \cup {None}],
           NEW b \in Book, NEW o \in AnyOrder, Accepts(b, o), OnGrid(b.positions[Key(o)], o)
    PROVE  LET k == Key(o)
               p == Filled(b, o).positions[k]
               t == TradeOf(b, o)
           IN  /\ k \in Keys /\ p \in Position
               /\ Filled(b, o).positions = [b.positions EXCEPT ![k] = p]
               /\ Filled(b, o).cash = b.cash + t.realized - (IF Exits(t.side) THEN 0 ELSE t.commission)
                                        - Sign(k[2]) * Cost(p) + Sign(k[2]) * Cost(b.positions[k])
               /\ t.realized \in Int /\ t.commission \in Int
<1> DEFINE k == Key(o)
           q == b.positions[k]
           p == IF Exits(o.side) THEN Left(q, o) ELSE Entered(q, o)
           g == Gross(o)
           c == Commission(Gross(o))
           t == TradeOf(b, o)
<1>1. /\ o.ticker \in Tickers /\ o.side \in Sides /\ o.quantity \in Nat \ {0}
      /\ k \in Keys /\ FillPrice(o) \in Nat /\ g \in Nat /\ c \in Nat
      /\ g = FillPrice(o) * o.quantity
  BY FillTypes DEF Accepts, Gross
<1>2. q \in Position /\ b.positions \in [Keys -> Position] /\ b.cash \in Int
  BY <1>1 DEF Book
<1>3. q.quantity \in Nat /\ q.average \in Nat  BY <1>2 DEF Position
<1>4. t.side = o.side /\ t.commission = c /\ t.realized = Realized(b, o)  BY DEF TradeOf
<1>5. k[2] = Direction(o.side)  BY DEF Key
<1>6. Filled(b, o).cash = b.cash + CashFlow(o)  BY DEF Filled
<1>7. Filled(b, o).positions = [b.positions EXCEPT ![k] = p]  BY <1>1, <1>2 DEF Filled
<1>8. Filled(b, o).positions[k] = p  BY <1>1, <1>2, <1>7
<1>9. Exits(o.side) => p \in Position /\ Cost(p) = Cost(q) - q.average * o.quantity
  <2> SUFFICES ASSUME Exits(o.side)
               PROVE  Left(q, o) \in Position /\ Cost(Left(q, o)) = Cost(q) - q.average * o.quantity
    OBVIOUS
  <2>1. o.quantity <= q.quantity  BY DEF Accepts
  <2>2. PICK d \in Nat : q.quantity = o.quantity + d
    <3> HIDE DEF q
    <3>1. q.quantity - o.quantity \in Nat  BY <1>1, <1>3, <2>1
    <3>2. q.quantity = o.quantity + (q.quantity - o.quantity)  BY <1>1, <1>3
    <3> QED  BY <3>1, <3>2
  <2>3. Left(q, o).quantity = d /\ Left(q, o) \in Position /\ (d > 0 => Left(q, o).average = q.average)
    BY <1>1, <1>2, <1>3, <2>2 DEF Left, NoPosition, Position
  <2>4. Cost(Left(q, o)) = q.average * d
    <3>1. CASE d = 0
      <4>1. Left(q, o).average \in Nat  BY <2>3 DEF Position
      <4> QED  BY <1>3, <2>3, <3>1, <4>1 DEF Cost
    <3>2. CASE d > 0  BY <2>3, <3>2 DEF Cost
    <3> QED  BY <3>1, <3>2
  <2>5. Cost(q) = q.average * o.quantity + q.average * d  BY <1>1, <1>3, <2>2 DEF Cost
  <2>6. q.average * o.quantity \in Int /\ q.average * d \in Int  BY <1>1, <1>3
  <2> QED  BY <2>3, <2>4, <2>5, <2>6
<1>10. ~ Exits(o.side) => p \in Position /\ Cost(p) = Cost(q) + g
  <2> SUFFICES ASSUME ~ Exits(o.side)
               PROVE  Entered(q, o) \in Position /\ Cost(Entered(q, o)) = Cost(q) + g
    OBVIOUS
  <2>1. PICK n \in Nat \ {0} : n = q.quantity + o.quantity  BY <1>1, <1>3
  <2>2. Cost(q) \in Nat  BY <1>3 DEF Cost
  <2>3. PICK x \in Nat : x = Cost(q) + g  BY <1>1, <2>2
  <2>4. x % n = 0  BY <2>1, <2>3 DEF OnGrid
  <2>5. (x \div n) * n = x  BY <2>4, ExactAverage
  <2>6. Entered(q, o) = [quantity |-> n, average |-> x \div n]  BY <2>1, <2>3 DEF Entered
  <2>7. x \div n \in Nat  OBVIOUS
  <2> QED  BY <2>3, <2>5, <2>6, <2>7 DEF Cost, Position
<1>11. PICK v \in Int : v = Cost(q)  BY <1>3 DEF Cost
<1>12. PICK w \in Int : w = q.average * o.quantity  BY <1>1, <1>3
<1>13. p \in Position  BY <1>9, <1>10
<1>14. /\ Realized(b, o) \in Int
       /\ CashFlow(o) = Realized(b, o) - (IF Exits(o.side) THEN 0 ELSE c)
                          - Sign(k[2]) * Cost(p) + Sign(k[2]) * Cost(q)
  <2> HIDE DEF p, g, c, q, k
  <2>1. CASE o.side = "BUY"
    <3>1. Cost(p) = v + g  BY <1>10, <1>11, <2>1 DEF Exits
    <3>2. Realized(b, o) = 0 /\ CashFlow(o) = - (g + c) /\ Sign(k[2]) = 1 /\ ~ Exits(o.side)
      BY <1>5, <2>1 DEF Realized, CashFlow, Pays, Sign, Direction, Exits, g, c
    <3> QED  BY <1>1, <1>11, <3>1, <3>2
  <2>2. CASE o.side = "SHORT"
    <3>1. Cost(p) = v + g  BY <1>10, <1>11, <2>2 DEF Exits
    <3>2. Realized(b, o) = 0 /\ CashFlow(o) = g - c /\ Sign(k[2]) = -1 /\ ~ Exits(o.side)
      BY <1>5, <2>2 DEF Realized, CashFlow, Pays, Sign, Direction, Exits, g, c
    <3> QED  BY <1>1, <1>11, <3>1, <3>2
  <2>3. CASE o.side = "SELL"
    <3>1. Cost(p) = v - w  BY <1>9, <1>11, <1>12, <2>3 DEF Exits
    <3>2. Realized(b, o) = (FillPrice(o) - q.average) * o.quantity - c
      BY <2>3 DEF Realized, q, k, c
    <3>3. (FillPrice(o) - q.average) * o.quantity = g - w  BY <1>1, <1>3, <1>12
    <3>4. CashFlow(o) = g - c /\ Sign(k[2]) = 1 /\ Exits(o.side)
      BY <1>5, <2>3 DEF CashFlow, Pays, Sign, Direction, Exits, g, c
    <3> QED  BY <1>1, <1>11, <1>12, <3>1, <3>2, <3>3, <3>4
  <2>4. CASE o.side = "COVER"
    <3>1. Cost(p) = v - w  BY <1>9, <1>11, <1>12, <2>4 DEF Exits
    <3>2. Realized(b, o) = (q.average - FillPrice(o)) * o.quantity - c
      BY <2>4 DEF Realized, q, k, c
    <3>3. (q.average - FillPrice(o)) * o.quantity = w - g  BY <1>1, <1>3, <1>12
    <3>4. CashFlow(o) = - (g + c) /\ Sign(k[2]) = -1 /\ Exits(o.side)
      BY <1>5, <2>4 DEF CashFlow, Pays, Sign, Direction, Exits, g, c
    <3> QED  BY <1>1, <1>11, <1>12, <3>1, <3>2, <3>3, <3>4
  <2> QED  BY <1>1, <2>1, <2>2, <2>3, <2>4 DEF Sides
<1>15. Sign(k[2]) * Cost(p) \in Int /\ Sign(k[2]) * Cost(q) \in Int
  <2>1. Cost(p) \in Int  BY <1>13 DEF Position, Cost
  <2> QED  BY <1>1, <1>11, <2>1, SignTypes
<1> HIDE DEF p, q, c, k, t
<1>16. Filled(b, o).cash = b.cash + t.realized - (IF Exits(t.side) THEN 0 ELSE t.commission)
                                 - Sign(k[2]) * Cost(p) + Sign(k[2]) * Cost(q)
  BY <1>1, <1>2, <1>4, <1>6, <1>14, <1>15
<1> QED  BY <1>1, <1>4, <1>7, <1>8, <1>13, <1>14, <1>16 DEF k, t, q

------------------------------------------------------------------------------
(* The replay, trade by trade.                                             *)

\* What ReplayAgrees says of a replayed book r and a stored one b.
Matches(r, b) ==
    /\ r \in Book
    /\ r.cash = b.cash
    /\ \A k \in Keys :
          /\ r.positions[k].quantity = b.positions[k].quantity
          /\ b.positions[k].quantity > 0 => r.positions[k] = b.positions[k]

\* A replayed trade keeps the match: it is the order that made it, at the
\* prices stored with it.
LEMMA ReplayMatches ==
    ASSUME bars \in [Tickers -> Prices \cup {None}],
           NEW b \in Book, b.cash >= 0, NEW o \in AnyOrder, Accepts(b, o),
           NEW r, Matches(r, b)
    PROVE  Matches(Replayed(r, TradeOf(b, o)), Filled(b, o))
<1> DEFINE k == Key(o)
           p == b.positions[k]
           q == r.positions[k]
           t == TradeOf(b, o)
           g == Gross(o)
           c == Commission(Gross(o))
           pNew == IF Exits(o.side) THEN Left(p, o) ELSE Entered(p, o)
           qNew == IF Exits(o.side) THEN [q EXCEPT !.quantity = @ - o.quantity]
                   ELSE [quantity |-> q.quantity + o.quantity,
                         average |-> (Cost(q) + g) \div (q.quantity + o.quantity)]
<1>1. /\ o.ticker \in Tickers /\ o.side \in Sides /\ o.quantity \in Nat \ {0}
      /\ k \in Keys /\ FillPrice(o) \in Nat /\ g \in Nat /\ c \in Nat
      /\ g = FillPrice(o) * o.quantity
  BY FillTypes DEF Accepts, Gross
<1>2. p \in Position /\ b.positions \in [Keys -> Position] /\ b.cash \in Int
  BY <1>1 DEF Book
<1>3. q \in Position /\ r.positions \in [Keys -> Position] /\ r.cash = b.cash
  BY <1>1 DEF Matches, Book
<1>4. /\ p.quantity \in Nat /\ p.average \in Nat /\ q.quantity \in Nat /\ q.average \in Nat
      /\ q.quantity = p.quantity /\ (p.quantity > 0 => q = p)
  BY <1>1, <1>2, <1>3 DEF Position, Matches
<1>5. /\ t.side = o.side /\ t.commission = c /\ t.price * t.quantity = g
      /\ t.quantity = o.quantity /\ <<t.ticker, Direction(t.side)>> = k
  BY <1>1 DEF TradeOf, Key
<1>6. /\ Filled(b, o).cash = b.cash + CashFlow(o)
      /\ Filled(b, o).positions = [b.positions EXCEPT ![k] = pNew]
  BY <1>1, <1>2 DEF Filled
<1>7. Replayed(r, t) = [cash |-> IF Pays(o.side) THEN r.cash - (g + c) ELSE r.cash + (g - c),
                        positions |-> [r.positions EXCEPT ![k] = qNew]]
  <2> HIDE DEF k, t, g, c
  <2> QED  BY <1>3, <1>5 DEF Replayed, qNew, q
<1>8. Filled(b, o).cash = Replayed(r, t).cash
  BY <1>1, <1>2, <1>3, <1>6, <1>7 DEF CashFlow
<1>9. Exits(o.side) => /\ qNew \in Position /\ qNew.quantity = pNew.quantity
                       /\ pNew.quantity > 0 => qNew = pNew
  <2> SUFFICES ASSUME Exits(o.side)
               PROVE  LET x == [q EXCEPT !.quantity = @ - o.quantity]
                          y == Left(p, o)
                      IN  x \in Position /\ x.quantity = y.quantity /\ (y.quantity > 0 => x = y)
    OBVIOUS
  <2>1. o.quantity <= p.quantity  BY DEF Accepts
  <2> HIDE DEF p, q
  <2>2. q.quantity - o.quantity \in Nat /\ p.quantity > 0 /\ q = p  BY <1>1, <1>4, <2>1
  <2>3. CASE p.quantity = o.quantity
    BY <1>1, <1>2, <2>2, <2>3 DEF Left, NoPosition, Position
  <2>4. CASE p.quantity # o.quantity
    BY <1>1, <1>2, <2>2, <2>4 DEF Left, NoPosition, Position
  <2> QED  BY <2>3, <2>4
<1>10. ~ Exits(o.side) => /\ qNew \in Position /\ qNew = pNew
  <2> SUFFICES ASSUME ~ Exits(o.side)
               PROVE  LET x == [quantity |-> q.quantity + o.quantity,
                                average |-> (Cost(q) + g) \div (q.quantity + o.quantity)]
                      IN  x \in Position /\ x = Entered(p, o)
    OBVIOUS
  <2>1. Cost(q) = Cost(p) /\ Cost(q) \in Nat
    <3> HIDE DEF p, q
    <3>1. CASE p.quantity > 0  BY <1>4, <3>1 DEF Cost
    <3>2. CASE p.quantity = 0  BY <1>4, <3>2 DEF Cost
    <3> QED  BY <1>4, <3>1, <3>2
  <2>2. Cost(q) + g \in Nat /\ q.quantity + o.quantity \in Nat \ {0}
    BY <1>1, <1>4, <2>1
  <2>3. (Cost(q) + g) \div (q.quantity + o.quantity) \in Nat  BY <2>2
  <2> QED  BY <1>4, <2>1, <2>2, <2>3 DEF Entered, Position
<1>11. qNew \in Position /\ qNew.quantity = pNew.quantity /\ (pNew.quantity > 0 => qNew = pNew)
  BY <1>9, <1>10
<1>12. CashFlow(o) \in Int  BY <1>1 DEF CashFlow
<1> HIDE DEF k, p, q, t, g, c, pNew, qNew
<1>13. Replayed(r, t).cash \in Int  BY <1>2, <1>6, <1>8, <1>12
<1>14. Replayed(r, t) \in Book  BY <1>1, <1>3, <1>7, <1>11, <1>13 DEF Book
<1>15. \A x \in Keys :
          /\ Replayed(r, t).positions[x].quantity = Filled(b, o).positions[x].quantity
          /\ Filled(b, o).positions[x].quantity > 0
               => Replayed(r, t).positions[x] = Filled(b, o).positions[x]
  <2> TAKE x \in Keys
  <2>1. CASE x = k  BY <1>1, <1>2, <1>3, <1>6, <1>7, <1>11, <2>1
  <2>2. CASE x # k
    <3>1. /\ Replayed(r, t).positions[x] = r.positions[x]
          /\ Filled(b, o).positions[x] = b.positions[x]
      BY <1>1, <1>2, <1>3, <1>6, <1>7, <2>2
    <3> QED  BY <3>1 DEF Matches
  <2> QED  BY <2>1, <2>2
<1>16. Matches(Replayed(r, t), Filled(b, o))  BY <1>8, <1>14, <1>15 DEF Matches
<1> QED  BY <1>16 DEF t

------------------------------------------------------------------------------
(* The inductive invariant of the two valuations: the replay of the ledger *)
(* matches the book, and the cash is the capital with the profits, less    *)
(* what entering and the open positions cost.                              *)

ReplayInv == Matches(ReplayOf(trades), book)

CashInv ==
    /\ IsFiniteSet(Held(book.positions))
    /\ book.cash = InitialCapital + Profits(trades) - EntryCosts(trades) - Paid(book.positions)

LedgerInv == BookInv /\ ReplayInv /\ CashInv

LEMMA LedgerInvInit == Init => LedgerInv
<1> SUFFICES ASSUME Init PROVE LedgerInv  OBVIOUS
<1>1. BookInv  BY BookInvInit
<1>2. book = Opening /\ trades = <<>>  BY DEF Init, Opening
<1>3. Opening \in Book  BY <1>1, <1>2 DEF BookInv, TypeOK
<1>4. ReplayInv  BY <1>2, <1>3, LedgerStarts DEF ReplayInv, Matches
<1>5. Held(book.positions) = {}  BY <1>2 DEF Held, Opening, NoPosition
<1>6. Paid(book.positions) = 0
  <2>1. \A f : Total(f, {}) = 0  BY Ledger!SumEmpty DEF Total
  <2> QED  BY <1>5, <2>1 DEF Paid
<1>7. InitialCapital \in Int /\ book.cash = InitialCapital
  BY <1>2, PaperTradingAssumption DEF Opening
<1>8. CashInv  BY <1>2, <1>5, <1>6, <1>7, LedgerStarts, FS_EmptySet DEF CashInv
<1> QED  BY <1>1, <1>4, <1>8 DEF LedgerInv

LEMMA LedgerOrderKeeps ==
    ASSUME LedgerInv, NEW o \in AnyOrder, ExecuteTrade(o)
    PROVE  LedgerInv'
<1> DEFINE k == Key(o)
           p == Filled(book, o).positions[k]
           t == TradeOf(book, o)
<1>1. /\ bars \in [Tickers -> Prices \cup {None}] /\ book \in Book /\ book.cash >= 0
      /\ trades \in Seq(Trade)
  BY DEF LedgerInv, BookInv, TypeOK, CashNeverNegative
<1>2. /\ Accepts(book, o) /\ OnGrid(book.positions[Key(o)], o)
      /\ book' = Filled(book, o) /\ trades' = Append(trades, t)
  BY DEF ExecuteTrade
<1>3. BookInv'  BY ExecuteTradeKeeps DEF LedgerInv
<1>4. t \in Trade  BY <1>1, <1>2, FilledBook
<1>5. ReplayInv'
  <2>1. Matches(ReplayOf(trades), book)  BY DEF LedgerInv, ReplayInv
  <2>2. Matches(Replayed(ReplayOf(trades), t), Filled(book, o))
    BY <1>1, <1>2, <2>1, ReplayMatches
  <2>3. ReplayOf(Append(trades, t)) = Replayed(ReplayOf(trades), t)  BY <1>1, <1>4, LedgerGrows
  <2>4. Matches(ReplayOf(Append(trades, t)), Filled(book, o))  BY <2>2, <2>3
  <2>5. ReplayOf(trades)' = ReplayOf(Append(trades, t))  BY <1>2
  <2> QED  BY <1>2, <2>4 DEF ReplayInv
<1>6. CashInv'
  <2>1. book.positions \in [Keys -> Position] /\ book.cash \in Int  BY <1>1 DEF Book
  <2>2. /\ k \in Keys /\ p \in Position
        /\ Filled(book, o).positions = [book.positions EXCEPT ![k] = p]
        /\ Filled(book, o).cash = book.cash + t.realized - (IF Exits(t.side) THEN 0 ELSE t.commission)
                                     - Sign(k[2]) * Cost(p) + Sign(k[2]) * Cost(book.positions[k])
        /\ t.realized \in Int /\ t.commission \in Int
    BY <1>1, <1>2, OrderBalances
  <2>3. /\ IsFiniteSet(Held(book.positions))
        /\ book.cash = InitialCapital + Profits(trades) - EntryCosts(trades) - Paid(book.positions)
    BY DEF LedgerInv, CashInv
  <2> HIDE DEF k, p, t
  <2>4. /\ IsFiniteSet(Held(Filled(book, o).positions))
        /\ Paid(book.positions) \in Int
        /\ Paid(Filled(book, o).positions)
             = Paid(book.positions) + Sign(k[2]) * Cost(p) - Sign(k[2]) * Cost(book.positions[k])
    BY <2>1, <2>2, <2>3, PaidMoves
  <2>5. /\ Profits(Append(trades, t)) = Profits(trades) + t.realized
        /\ EntryCosts(Append(trades, t))
             = EntryCosts(trades) + (IF Exits(t.side) THEN 0 ELSE t.commission)
        /\ Profits(trades) \in Int /\ EntryCosts(trades) \in Int
    BY <1>1, <1>4, LedgerGrows
  <2>6. Sign(k[2]) * Cost(p) \in Int /\ Sign(k[2]) * Cost(book.positions[k]) \in Int
    <3>1. \A x \in Position : Cost(x) \in Int  BY DEF Position, Cost
    <3>2. Cost(p) \in Int /\ Cost(book.positions[k]) \in Int  BY <2>1, <2>2, <3>1
    <3> QED  BY <2>2, <3>2, SignTypes
  <2>7. InitialCapital \in Int  BY PaperTradingAssumption
  <2>8. PICK fee \in Int : fee = IF Exits(t.side) THEN 0 ELSE t.commission  BY <2>2
  <2>9. Filled(book, o).cash = InitialCapital + Profits(Append(trades, t))
            - EntryCosts(Append(trades, t)) - Paid(Filled(book, o).positions)
    BY <2>1, <2>2, <2>3, <2>4, <2>5, <2>6, <2>7, <2>8
  <2> QED  BY <1>2, <2>4, <2>9 DEF CashInv
<1> QED  BY <1>3, <1>5, <1>6 DEF LedgerInv

LEMMA LedgerInvStep == LedgerInv /\ [Next]_vars => LedgerInv'
<1> SUFFICES ASSUME LedgerInv, [Next]_vars PROVE LedgerInv'  OBVIOUS
<1>1. BookInv'  BY BookInvStep DEF LedgerInv
<1>2. ASSUME UNCHANGED <<book, trades>> PROVE LedgerInv'
  BY <1>1, <1>2 DEF LedgerInv, ReplayInv, CashInv
<1>3. ASSUME NEW t \in Tickers, NEW price \in Prices, IngestBar(t, price)
      PROVE  LedgerInv'
  BY <1>2, <1>3 DEF IngestBar
<1>4. ASSUME NEW o \in Order, ExecuteTrade(o) PROVE LedgerInv'
  BY <1>4, OrdersAreOrders, LedgerOrderKeeps
<1>5. ASSUME NEW t \in Tickers, NEW direction \in Directions, ClosePosition(t, direction)
      PROVE  LedgerInv'
  <2>1. PICK o \in AnyOrder : ExecuteTrade(o)  BY <1>5, ClosingIsAnOrder DEF LedgerInv
  <2> QED  BY <2>1, LedgerOrderKeeps
<1>6. CASE UNCHANGED vars  BY <1>2, <1>6 DEF vars
<1> QED  BY <1>3, <1>4, <1>5, <1>6 DEF Next

------------------------------------------------------------------------------
(* What the invariant says of the two valuations.                          *)

\* Two books with the same open positions have the same market value.
LEMMA SameMarketValue ==
    ASSUME bars \in [Tickers -> Prices \cup {None}],
           NEW r, NEW b \in Book, Matches(r, b), IsFiniteSet(Held(b.positions))
    PROVE  MarketValue(r.positions) = MarketValue(b.positions)
<1> DEFINE S == Held(b.positions)
           f == [k \in S |-> Sign(k[2]) * bars[k[1]] * b.positions[k].quantity]
<1>1. \A p : MarketValue(p) = Market!Summed(p, Held(p))
  BY DEF MarketValue, Market!Summed, MapThenSumSet, MapThenFoldSet,
         Market!MapThenSumSet, Market!MapThenFoldSet
<1>2. Held(r.positions) = S  BY DEF Held, Matches
<1>3. \A k \in S : /\ f[k] = Sign(k[2]) * bars[k[1]] * b.positions[k].quantity
                   /\ f[k] = Sign(k[2]) * bars[k[1]] * r.positions[k].quantity
  BY DEF Held, Matches
<1>4. IsFiniteSet(S)  OBVIOUS
<1> HIDE DEF S, f
<1>5. Market!Summed(b.positions, S) = Total(f, S)  BY <1>3, <1>4, MarketSame, Market!SummedIs
<1>6. Market!Summed(r.positions, S) = Total(f, S)  BY <1>3, <1>4, MarketSame, Market!SummedIs
<1> QED  BY <1>1, <1>2, <1>5, <1>6 DEF S

LEMMA ReplayFollows == LedgerInv => ReplayAgrees
<1> SUFFICES ASSUME LedgerInv PROVE ReplayAgrees  OBVIOUS
<1>1. Matches(Replay, book)  BY ReplayIs DEF LedgerInv, ReplayInv
<1>2. MarketValue(Replay.positions) = MarketValue(book.positions)
  BY <1>1, SameMarketValue DEF LedgerInv, BookInv, TypeOK, CashInv
<1> QED  BY <1>1, <1>2 DEF Matches, ReplayAgrees, ReplayValue, TotalValue

LEMMA GainsAddUp == LedgerInv => ProfitsReconcile
<1> SUFFICES ASSUME LedgerInv, Priced = Held(book.positions)
             PROVE  TotalValue - InitialCapital = RealizedPnL + UnrealizedPnL - EntryCommissions
  BY DEF ProfitsReconcile
<1> DEFINE S == Held(book.positions)
           held == book.positions
           f == [k \in S |-> Sign(k[2]) * bars[k[1]] * held[k].quantity]
           g == CostOn(held)
           h == [k \in S |-> Sign(k[2]) * (bars[k[1]] - held[k].average) * held[k].quantity]
<1>1. /\ bars \in [Tickers -> Prices \cup {None}] /\ book.cash \in Int
      /\ held \in [Keys -> Position] /\ trades \in Seq(Trade)
  BY DEF LedgerInv, BookInv, TypeOK, Book
<1>2. IsFiniteSet(S) /\ S \subseteq Keys  BY DEF LedgerInv, CashInv, Held
<1>3. MarketValue(held) = Market!Summed(held, S)
  BY DEF MarketValue, Market!Summed, MapThenSumSet, MapThenFoldSet,
         Market!MapThenSumSet, Market!MapThenFoldSet
<1>4. UnrealizedPnL = Gains!Summed(held, S)
  BY DEF UnrealizedPnL, Gains!Summed, MapThenSumSet, MapThenFoldSet,
         Gains!MapThenSumSet, Gains!MapThenFoldSet
<1>5. \A k \in S : /\ f[k] = Sign(k[2]) * bars[k[1]] * held[k].quantity
                   /\ h[k] = Sign(k[2]) * (bars[k[1]] - held[k].average) * held[k].quantity
  OBVIOUS
<1>6. \A k \in S : f[k] \in Int /\ g[k] \in Int /\ h[k] = f[k] - g[k]
  <2> TAKE k \in S
  <2>1. k \in Keys /\ k[1] \in Tickers  BY <1>2 DEF Keys
  <2>2. PICK s \in {-1, 1} : s = Sign(k[2])  BY <2>1, SignTypes
  <2>3. PICK v \in Int : v = bars[k[1]]
    <3>1. bars[k[1]] \in Prices \cup {None}  BY <1>1, <2>1
    <3>2. Prices \subseteq Int /\ None \in Int  BY PaperTradingAssumption DEF None
    <3> QED  BY <3>1, <3>2
  <2>4. PICK n \in Nat, a \in Nat : n = held[k].quantity /\ a = held[k].average
    BY <1>1, <2>1 DEF Position
  <2>5. f[k] = s * v * n /\ g[k] = s * (a * n) /\ h[k] = s * (v - a) * n
    BY <2>1, <2>2, <2>3, <2>4 DEF CostOn, Cost
  <2>6. PICK vn \in Int, an \in Int : vn = v * n /\ an = a * n  OBVIOUS
  <2>7. (v - a) * n = vn - an  BY <2>6
  <2>8. s * v * n = s * vn /\ s * (v - a) * n = s * (vn - an)
    <3>1. CASE s = 1  BY <2>6, <2>7, <3>1
    <3>2. CASE s = -1  BY <2>6, <2>7, <3>2
    <3> QED  BY <3>1, <3>2
  <2>9. s * (vn - an) = s * vn - s * an /\ s * vn \in Int /\ s * an \in Int  OBVIOUS
  <2> HIDE DEF f, g, h
  <2> QED  BY <2>5, <2>6, <2>8, <2>9
<1>7. g = CostOn(held) /\ Paid(held) = Total(g, S)  BY DEF Paid
<1> HIDE DEF S, f, g, h
<1>8. MarketValue(held) = Total(f, S)  BY <1>2, <1>3, <1>5, MarketSame, Market!SummedIs
<1>9. UnrealizedPnL = Total(h, S)  BY <1>2, <1>4, <1>5, GainsSame, Gains!SummedIs
<1>10. Total(h, S) = Total(f, S) - Total(g, S)  BY <1>2, <1>6, LedgerSame, Ledger!SumDiffers
<1>11. Total(f, S) \in Int /\ Total(g, S) \in Int  BY <1>2, <1>6, LedgerSame, Ledger!SumInt
<1>12. RealizedPnL = Profits(trades) /\ EntryCommissions = EntryCosts(trades)
  BY <1>1, ProfitsAre, EntryCostsAre
<1>13. Profits(trades) \in Int /\ EntryCosts(trades) \in Int
  <2>1. \A i \in DOMAIN trades : trades[i].realized \in Int /\ trades[i].commission \in Int
    <3>1. \A i \in DOMAIN trades : trades[i] \in Trade  BY <1>1
    <3>2. \A e \in Trade : e.realized \in Int /\ e.commission \in Int  BY DEF Trade
    <3> QED  BY <3>1, <3>2
  <2>2. IsFiniteSet(DOMAIN trades) /\ IsFiniteSet(Entering(trades)) /\ Entering(trades) \subseteq DOMAIN trades
    BY <1>1, LedgerFinite DEF Entering
  <2> QED  BY <2>1, <2>2, LedgerSame, Ledger!SumInt DEF Profits, EntryCosts
<1>14. book.cash = InitialCapital + Profits(trades) - EntryCosts(trades) - Total(g, S)
  BY <1>7 DEF LedgerInv, CashInv
<1>15. InitialCapital \in Int  BY PaperTradingAssumption
<1>16. TotalValue = book.cash + Total(f, S)  BY <1>8 DEF TotalValue
<1> QED  BY <1>1, <1>9, <1>10, <1>11, <1>12, <1>13, <1>14, <1>15, <1>16

(***************************************************************************)
(* The ledger explains the portfolio: replaying it, as backfill_snapshots  *)
(* does, gives the cash, the open positions and the value mark_to_market   *)
(* reports, after any number of orders.                                    *)
(***************************************************************************)
THEOREM LedgerReplays == Spec => []ReplayAgrees
<1>1. Spec => []LedgerInv  BY LedgerInvInit, LedgerInvStep, PTL DEF Spec
<1> QED  BY <1>1, ReplayFollows, PTL

(***************************************************************************)
(* The figures of mark_to_market add up: with a price for every position,  *)
(* the gain of the portfolio is the realised and the unrealised profit     *)
(* less the commissions of the entries.                                    *)
(***************************************************************************)
THEOREM FiguresAddUp == Spec => []ProfitsReconcile
<1>1. Spec => []LedgerInv  BY LedgerInvInit, LedgerInvStep, PTL DEF Spec
<1> QED  BY <1>1, GainsAddUp, PTL
==============================================================================
