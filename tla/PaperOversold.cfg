\* Two requests at once may sell the same shares.
SPECIFICATION OrdersSpec
CONSTANTS
    t1 = t1
    r1 = r1
    r2 = r2
    Tickers = {t1}
    Prices = {20}
    Quantities = {1}
    InitialCapital = 50
    SlippageRate = 1
    CommissionRate = 1
    Unit = 10
    MaxTrades = 3
    Requests = {r1, r2}
INVARIANT
    NeverOversold
