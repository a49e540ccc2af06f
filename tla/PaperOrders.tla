------------------------------ MODULE PaperOrders ------------------------------
(***************************************************************************)
(* Orders of requests that overlap.  Each route places its order in a      *)
(* database session of its own (routes_api.py, routes_pages.py): the       *)
(* request reads the cash and the position, decides, and commits absolute  *)
(* values of the cash and the position together with a new ledger row.  No *)
(* row is locked, so what a request decided on may be gone when it writes. *)
(***************************************************************************)
EXTENDS PaperTrading

CONSTANT Requests       \* the threads that serve requests

VARIABLE pending        \* the requests between their read and their commit

ordersVars == <<vars, pending>>

Request == [by : Requests, order : Order, read : Book, filled : Book, trade : Trade]

HasRow(b, k) == b.positions[k].quantity > 0

PlaceOrder(w, o) ==
    LET request == [by |-> w, order |-> o, read |-> book,
                    filled |-> Filled(book, o), trade |-> TradeOf(book, o)]
    IN  /\ Len(trades) + Cardinality(pending) < MaxTrades
        /\ \A r \in pending : r.by # w
        /\ Accepts(book, o)
        /\ OnGrid(book.positions[Key(o)], o)
        /\ pending' = pending \cup {request}
        /\ UNCHANGED vars

\* An insert next to the row another request inserted breaks the uniqueness of
\* (portfolio, ticker, direction), an update of a row that was deleted finds
\* nothing: the request fails and is rolled back.  Deleting a row that is gone
\* is only a warning.
Fails(r) ==
    LET k == Key(r.order)
    IN  /\ HasRow(r.read, k) # HasRow(book, k)
        /\ HasRow(r.filled, k)

\* The row after the write: an update names the columns that changed.
Written(r) ==
    LET k == Key(r.order)
        new == r.filled.positions[k]
    IN  IF HasRow(r.read, k) /\ new.average = r.read.positions[k].average
        THEN [new EXCEPT !.average = book.positions[k].average]
        ELSE new

Commit(r) ==
    /\ pending' = pending \ {r}
    /\ IF Fails(r) THEN UNCHANGED <<book, trades>>
       ELSE /\ book' = [cash |-> r.filled.cash,
                        positions |-> [book.positions EXCEPT ![Key(r.order)] = Written(r)]]
            /\ trades' = Append(trades, r.trade)
    /\ UNCHANGED bars

OrdersInit == Init /\ pending = {}

OrdersNext ==
    \/ \E t \in Tickers, price \in Prices : IngestBar(t, price) /\ UNCHANGED pending
    \/ \E w \in Requests, o \in Order : PlaceOrder(w, o)
    \/ \E r \in pending : Commit(r)

OrdersSpec == OrdersInit /\ [][OrdersNext]_ordersVars

------------------------------------------------------------------------------
(* Properties. *)

Bought(k) ==
    MapThenSumSet(LAMBDA i : IF Exits(trades[i].side) THEN - trades[i].quantity
                                                      ELSE trades[i].quantity,
                  {i \in DOMAIN trades : <<trades[i].ticker, Direction(trades[i].side)>> = k})

\* tests/test_portfolio.py asks that more than is held cannot be sold: the
\* ledger never sells, nor covers, more than it bought or shorted.
NeverOversold == \A k \in Keys : Bought(k) >= 0
==============================================================================
