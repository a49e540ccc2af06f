\* Requests that do not overlap, with a gateway that repeats its callbacks.
SPECIFICATION Spec
CONSTANTS
    u1 = u1
    r1 = r1
    r2 = r2
    scheduler = scheduler
    Users = {u1}
    Requests = {r1}
    Scheduler = scheduler
    Overlap = 0
    TrialDays = 1
    PeriodDays = 2
    GatewayStatuses <- Reports
    MaxDay = 4
    MaxEnd = 7
    MaxRows = 2
    MaxPayments = 2
INVARIANTS
    TypeOK
    AccessIsDeadline
    PaidTimeHonoured
    PaidPeriodsDisjoint
PROPERTIES
    ConfirmedStays
    KeepsPromise
