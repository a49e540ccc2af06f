\* Two accounts, their roles and statuses; sign-ins and changes of role overlap everything.
SPECIFICATION Spec
CONSTANTS
    e1 = e1
    e2 = e2
    p1 = p1
    p2 = p2
    r1 = r1
    r2 = r2
    Emails = {e1, e2}
    AdminEmails = {}
    Passwords = {p1}
    RequireVerification = FALSE
    HashUpgrade = TRUE
    Requests = {r1, r2}
    Serial <- AllButLoginAndRole
    LoginMaxAttempts = 1
    LoginWindow = 1
    SessionTime = 1
    VerifyTime = 2
    ResetTime = 1
    MaxNow = 0
    MaxEpoch = 1
    MaxSessions = 2
    MaxTokens = 2
    MaxFailures = 0
SYMMETRY Symmetry
INVARIANTS
    TypeOK
PROPERTIES
    NeverRevived
    LastAdminLostToDeposed
