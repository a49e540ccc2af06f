------------------------------- MODULE Execution ------------------------------
(***************************************************************************)
(* Trading toward target weights (src/backend/backtesting/engine.py,       *)
(* _rebalance).  A book is a record                                        *)
(*   cash                                                                  *)
(*   holdings    name -> [quantity, cost, since]                           *)
(*   trades      closed: [name, quantity, pnl, days]                       *)
(*   fees        commissions paid on buying                                *)
(*   costs       commissions and slippage                                  *)
(*   traded      value                                                     *)
(* A holding keeps what was paid for it, its average price times its       *)
(* quantity.  Shares are whole and money is in whole units.                *)
(***************************************************************************)
EXTENDS PointInTime

CONSTANTS Commission, Slippage      \* in hundredths of a percent

ASSUME CostAssumption == Commission \in 0..10000 /\ Slippage \in 0..10000

Share(x, weight) == (x * weight) \div 10000
PaidOn(gross) == Share(gross, Commission)

NewBook(capital) == [cash |-> capital, holdings |-> <<>>, trades |-> <<>>,
                     fees |-> 0, costs |-> 0, traded |-> 0]

Priced(v, names) == {n \in names : Known(PriceOn(v, n)) /\ PriceOn(v, n) > 0}
MarketValue(v, holdings) ==
    LET priced == Priced(v, DOMAIN holdings)
    IN  SumFunctionOnSet([n \in priced |-> PriceOn(v, n) * holdings[n].quantity], priced)

\* What was paid for a part of a holding.
CostOf(holding, quantity) == (holding.cost * quantity) \div holding.quantity

\* So many shares of a holding sold on a day, below the price.
Sell(book, n, quantity, price, day) ==
    LET h == book.holdings[n]
        fill == Share(price, 10000 - Slippage)
        gross == fill * quantity
        left == [h EXCEPT !.quantity = @ - quantity, !.cost = @ - CostOf(h, quantity)]
    IN  [book EXCEPT
            !.cash = @ + gross - PaidOn(gross),
            !.costs = @ + PaidOn(gross) + (price - fill) * quantity,
            !.traded = @ + gross,
            !.trades = Append(@, [name |-> n, quantity |-> quantity, days |-> day - h.since,
                                  pnl |-> gross - CostOf(h, quantity) - PaidOn(gross)]),
            !.holdings = IF left.quantity = 0 THEN Restrict(@, DOMAIN @ \ {n})
                         ELSE [@ EXCEPT ![n] = left]]

\* The most that can be bought with the cash, above the price, commission paid.
Affordable(book, value) == Min({value, (book.cash * 10000) \div (10000 + Commission)})

Held(book, n) == IF n \in DOMAIN book.holdings THEN book.holdings[n].quantity ELSE 0

\* Valuing the whole holding at the latest fill.
RepricedCost(book, n, fill, quantity) == fill * (Held(book, n) + quantity)

\* What is paid is added to what was paid before.
AddedCost(book, n, fill, quantity) ==
    (IF n \in DOMAIN book.holdings THEN book.holdings[n].cost ELSE 0) + fill * quantity

Buy(book, n, value, price, day) ==
    LET fill == Share(price, 10000 + Slippage)
        quantity == Affordable(book, value) \div fill
        gross == fill * quantity
        since == IF n \in DOMAIN book.holdings THEN book.holdings[n].since ELSE day
    IN  IF quantity <= 0 \/ gross + PaidOn(gross) > book.cash THEN book
        ELSE [book EXCEPT
            !.cash = @ - gross - PaidOn(gross),
            !.fees = @ + PaidOn(gross),
            !.costs = @ + PaidOn(gross) + (fill - price) * quantity,
            !.traded = @ + gross,
            !.holdings = Put(@, n, [quantity |-> Held(book, n) + quantity, since |-> since,
                                    cost |-> AddedCost(book, n, fill, quantity)])]

\* What a rebalancing goes by: the view of the day, the targets, a sequence of
\* [name, weight], and the equity they are shares of.
Plan(book, targets, v) ==
    [view |-> v, targets |-> targets, equity |-> book.cash + MarketValue(v, book.holdings)]

Weight(targets, n) ==
    LET own == {i \in DOMAIN targets : targets[i].name = n}
    IN  SumFunctionOnSet([i \in own |-> targets[i].weight], own)

Goal(plan, n) == Share(plan.equity, Weight(plan.targets, n))

SellDown(plan, book, n) ==
    LET price == PriceOn(plan.view, n)
        keep == Goal(plan, n) \div price
    IN  IF keep >= Held(book, n) THEN book
        ELSE Sell(book, n, Held(book, n) - keep, price, plan.view.as_of)

\* What has no price is not traded.
BuyUp(plan, book, t) ==
    LET price == PriceOn(plan.view, t.name)
        lacking == Goal(plan, t.name) - Held(book, t.name) * price
    IN  IF Priced(plan.view, {t.name}) = {} \/ lacking <= 0 THEN book
        ELSE Buy(book, t.name, lacking, price, plan.view.as_of)

\* The greatest weight first, equal ones in their order.
Heaviest(targets) ==
    LET order == Best([i \in DOMAIN targets |-> targets[i].weight])
    IN  [k \in DOMAIN order |-> targets[order[k]]]

\* Sells come first, so that their proceeds pay for what is bought.
Rebalance(book, targets, v) ==
    LET plan == Plan(book, targets, v)
        sold == FoldLeft(LAMBDA b, n : SellDown(plan, b, n), book,
                         SetToSeq(Priced(v, DOMAIN book.holdings)))
    IN  FoldLeft(LAMBDA b, t : BuyUp(plan, b, t), sold, Heaviest(targets))
==============================================================================
