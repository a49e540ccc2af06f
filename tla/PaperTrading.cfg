\* One order at a time, two tickers, long and short, two prices.
SPECIFICATION Spec
CONSTANTS
    t1 = t1
    t2 = t2
    Tickers = {t1, t2}
    Prices = {20, 60}
    Quantities = {1, 2}
    InitialCapital = 140
    SlippageRate = 1
    CommissionRate = 1
    Unit = 10
    MaxTrades = 4
SYMMETRY AlikeTickers
INVARIANTS
    TypeOK
    CashNeverNegative
    ReplayAgrees
    ProfitsReconcile
