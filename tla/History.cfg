SPECIFICATION Spec
CONSTANTS
    n1 = n1
    n2 = n2
    n3 = n3
    ix = ix
    MinBars = 2
    RangeBars = 3
    ShortWindow = 1
    MidWindow = 2
    LongWindow = 3
    RsiWindow = 2
    MonthWindow = 1
    QuarterWindow = 2
    Wing = 1
    MomentumSkip = 1
    MomentumBars = 2
    MinReturns = 2
    Shares <- SharesOfAll
    Volatility <- VolatilityOfAll
    Commission = 50
    Slippage = 100
    Universe <- Names3
    Benchmark = ix
    PriceProviders <- ThreeProviders
    Bulletins <- OneBulletin
    FilingProviders <- OneFiler
    Feeds <- TwoFeeds
    Tried <- AllStrategies
    Starts = {2}
    Window = 1
    Capital = 10000
    FirstDay = 3
    LastDay = 4
    Outages <- FewOutages
INVARIANTS
    TargetsCapped
    TradesExplainCash
PROPERTIES
    ConfidenceNeverDrops
    NoLookAhead
