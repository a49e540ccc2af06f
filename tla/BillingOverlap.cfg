\* Overlapping requests on one customer, payments confirmed by administrators.
SPECIFICATION FairSpec
CONSTANTS
    u1 = u1
    r1 = r1
    r2 = r2
    scheduler = scheduler
    Users = {u1}
    Requests = {r1, r2}
    Scheduler = scheduler
    Overlap = 1
    TrialDays = 1
    PeriodDays = 2
    GatewayStatuses = {}
    MaxDay = 2
    MaxEnd = 5
    MaxRows = 1
    MaxPayments = 2
INVARIANTS
    NoFreeTime
PROPERTIES
    LapsedRetired
