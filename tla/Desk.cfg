SPECIFICATION Spec
CONSTANTS
    n1 = n1
    n2 = n2
    n3 = n3
    n4 = n4
    MinBars = 3
    RangeBars = 4
    ShortWindow = 2
    MidWindow = 3
    LongWindow = 4
    RsiWindow = 2
    MonthWindow = 1
    QuarterWindow = 3
    Wing = 1
    Universes <- SomeUniverses
    Benchmark <- Index
    Answers <- FewAnswers
    Requests <- TwoRequests
    HasKey = TRUE
    CallLimit = 5
    Correlated = {0}
    Capital = 100000
    OwnOrders <- LargeOrders
    MaxFills = 3
INVARIANTS
    WordsMoveOneNotch
    BudgetKept
    FakesNotSized
    PageGrounded
PROPERTIES
    LimitsHold
