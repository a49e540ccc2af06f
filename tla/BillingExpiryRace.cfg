\* The expiry job against a confirmation in flight.
SPECIFICATION Spec
CONSTANTS
    u1 = u1
    r1 = r1
    r2 = r2
    scheduler = scheduler
    Users = {u1}
    Requests = {r1}
    Scheduler = scheduler
    Overlap = 1
    TrialDays = 1
    PeriodDays = 2
    GatewayStatuses = {}
    MaxDay = 2
    MaxEnd = 5
    MaxRows = 2
    MaxPayments = 1
PROPERTIES
    ExpiryOnlyTidies
CHECK_DEADLOCK FALSE
