\* Two alerts on one ticker, swept while their owner changes them.
SPECIFICATION Spec
CONSTANTS
    t1 = t1
    a1 = a1
    a2 = a2
    Tickers = {t1}
    Prices = {2}
    Day = 1
    MaxAge = 0
    VendorDelay = 0
    MaxTime = 1
    Alerts = {a1, a2}
    Levels = {1, 2}
    MaxCount = 2
SYMMETRY AlikeAlerts
INVARIANTS
    TypeOK
    GeneratedIsLabelled
    RecordedWasMailed
PROPERTIES
    NeverDowngraded
    NeverFiresOnDemo
    OwnerDecides
