\* One name over two days, one failure, visitors beside the weekly job.
SPECIFICATION FairSpec
CONSTANTS
    t1 = t1
    Tickers = {t1}
    Prices = {1, 2}
    Analyses <- TwoAnalyses
    Horizon <- OneDay
    DedupeDays = 1
    Notifications = TRUE
    LastDay = 1
    MaxCalls = 3
    MaxFailures = 1
INVARIANTS
    OneOpenThesis
    AlertsNotRepeated
    NotifiedWasSent
PROPERTIES
    DisprovedStays
    LevelsArchived
    VerdictStands
    CallsAreJudged
