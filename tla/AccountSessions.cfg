\* One account, its links, sessions and failed sign-ins; sign-ins overlap everything.
SPECIFICATION Spec
CONSTANTS
    e1 = e1
    e2 = e2
    p1 = p1
    p2 = p2
    r1 = r1
    r2 = r2
    Emails = {e1}
    AdminEmails = {}
    Passwords = {p1, p2}
    RequireVerification = TRUE
    HashUpgrade = FALSE
    Requests = {r1, r2}
    Serial <- AllButLogin
    LoginMaxAttempts = 1
    LoginWindow = 0
    SessionTime = 1
    VerifyTime = 2
    ResetTime = 1
    MaxNow = 1
    MaxEpoch = 2
    MaxSessions = 2
    MaxTokens = 3
    MaxFailures = 2
SYMMETRY Symmetry
INVARIANTS
    SessionsFollowPassword
    FailuresBounded
    LatestLinkOnly
