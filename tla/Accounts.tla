------------------------------ MODULE Accounts ------------------------------
(***************************************************************************)
(* Accounts, sessions, one-time links and failed sign-ins                  *)
(* (src/backend/accounts/service.py, routes_auth.py, auth_deps.py and the  *)
(* account pages of routes_admin.py).                                      *)
(*                                                                         *)
(* As in Billing, a request is two steps: one that reads the tables and    *)
(* decides, and Commit, which inserts the new rows and writes the changed  *)
(* columns over whatever is stored by then.                                *)
(*                                                                         *)
(* Left out: profile fields, audit rows, e-mails, hashing, the per-network *)
(* rate limiter and the anti-forgery tokens (either may refuse a request,  *)
(* which is then no step), and the trial a sign-up starts (see Billing).   *)
(***************************************************************************)
EXTENDS Integers, Sequences, FiniteSets

CONSTANTS
    Emails,
    AdminEmails,            \* the configured ADMIN_EMAIL, or {}
    Passwords,
    RequireVerification,    \* EGX_REQUIRE_EMAIL_VERIFICATION
    HashUpgrade,            \* whether a release ever raises the cost of a hash
    Requests,               \* the threads that serve HTTP requests
    Serial,                 \* bound: operations no two of which overlap
    LoginMaxAttempts,
    LoginWindow,
    SessionTime,
    VerifyTime,
    ResetTime,
    MaxNow,                 \* bound: the last instant
    MaxEpoch,               \* bound: no epoch is raised past this
    MaxSessions,            \* bound: session rows read by a sign-in
    MaxTokens,              \* bound: token rows read by an issue
    MaxFailures             \* bound: failed sign-ins of an address

Role == {"USER", "ADMIN"}
AccountStatus == {"ACTIVE", "SUSPENDED", "DELETED"}
Purpose == {"verify_email", "reset_password"}
Operations == {"signup", "verify", "resend", "login", "logout", "forgot", "reset",
               "revoke", "status", "role"}

ASSUME AccountsAssumption ==
    /\ AdminEmails \subseteq Emails
    /\ {RequireVerification, HashUpgrade} \subseteq BOOLEAN
    /\ Serial \subseteq Operations
    /\ {SessionTime, VerifyTime, ResetTime} \subseteq Nat \ {0}
    /\ {LoginMaxAttempts, LoginWindow} \subseteq Nat
    /\ {MaxNow, MaxEpoch, MaxSessions, MaxTokens, MaxFailures} \subseteq Nat

VARIABLES
    now,
    users,      \* users[e]: the account of e, for the addresses that have one
    sessions,   \* session rows, oldest first
    tokens,     \* one-time tokens, oldest first
    failures,   \* failures[e]: the instants of the failed sign-ins, oldest first
    inflight    \* requests that have read and not yet committed

vars == <<now, users, sessions, tokens, failures, inflight>>

\* A hash whose cost was raised since is outdated.
Hash == [password : Passwords, outdated : BOOLEAN]

User == [role : Role, status : AccountStatus, verified : BOOLEAN, epoch : Nat, hash : Hash]

\* `password` is history: the password that opened the session.
UserSession == [user : Emails, epoch : Nat, expires : Nat, revoked : BOOLEAN,
                password : Passwords]

OneTimeToken == [user : Emails, purpose : Purpose, expires : Nat, used : BOOLEAN]

------------------------------------------------------------------------------
(* What the stored rows say. *)

\* The session's cookie signs its owner in.
Resolves(s) ==
    /\ ~ sessions[s].revoked
    /\ sessions[s].expires > now
    /\ users[sessions[s].user].status = "ACTIVE"
    /\ sessions[s].epoch = users[sessions[s].user].epoch

IsValid(token) == ~ token.used /\ token.expires > now

RecentFailures(e) == {i \in DOMAIN failures[e] : failures[e][i] >= now - LoginWindow}

\* Mutant: one attempt too many.
LockedOutLate(e) == Cardinality(RecentFailures(e)) > LoginMaxAttempts

IsLockedOut(e) == Cardinality(RecentFailures(e)) >= LoginMaxAttempts

HashPassword(p) == [password |-> p, outdated |-> FALSE]

IsAdmin(e) == users[e].role = "ADMIN" /\ users[e].status = "ACTIVE"

------------------------------------------------------------------------------
(* A request: what it has decided to write. *)

NoFunction == [e \in {} |-> {}]

\* `created` and `changed` go by address; `revoke` and `use` name rows.  `actor`
\* is history: the administrator who asks.
NoEffect == [created |-> NoFunction, changed |-> NoFunction, revoke |-> {}, use |-> {},
             session |-> <<>>, token |-> <<>>, failed |-> {}, actor |-> {}]

Begin(w, op, effect) ==
    /\ \A r \in inflight : r.by # w /\ ~ {op, r.op} \subseteq Serial
    /\ inflight' = inflight \cup {[by |-> w, op |-> op, effect |-> effect]}
    /\ UNCHANGED <<now, users, sessions, tokens, failures>>

Change(e, row) == [x \in {e} |-> [read |-> users[e], dirty |-> row]]

NewSession(e, row) ==
    <<[user |-> e, epoch |-> row.epoch, expires |-> now + SessionTime, revoked |-> FALSE,
       password |-> row.hash.password]>>

NewToken(e, purpose) ==
    <<[user |-> e, purpose |-> purpose, used |-> FALSE,
       expires |-> now + (IF purpose = "verify_email" THEN VerifyTime ELSE ResetTime)]>>

Outstanding(e, purpose) ==
    {t \in DOMAIN tokens :
        tokens[t].user = e /\ tokens[t].purpose = purpose /\ ~ tokens[t].used}

\* Mutant: the links sent earlier keep working.
IssueAnother(e, purpose) == [NoEffect EXCEPT !.token = NewToken(e, purpose)]

\* A new link retires the outstanding ones.
IssueToken(e, purpose) ==
    [NoEffect EXCEPT !.use = Outstanding(e, purpose), !.token = NewToken(e, purpose)]

LiveSessions(e) == {s \in DOMAIN sessions : sessions[s].user = e /\ ~ sessions[s].revoked}

\* Mutants: the session rows are revoked and the epoch stays; it is counted down.
RevokeRows(e, row) ==
    [NoEffect EXCEPT !.changed = Change(e, row), !.revoke = LiveSessions(e)]

RevokeBackwards(e, row) ==
    [NoEffect EXCEPT !.changed = Change(e, [row EXCEPT !.epoch = @ - 1]),
                     !.revoke = LiveSessions(e)]

\* `row` is what the operation made of the account before it revokes.
RevokeAllSessions(e, row) ==
    [NoEffect EXCEPT !.changed = Change(e, [row EXCEPT !.epoch = @ + 1]),
                     !.revoke = LiveSessions(e)]

------------------------------------------------------------------------------
(* The routes *)

Signup(w, e, p) ==
    /\ e \notin DOMAIN users
    /\ Len(tokens) < MaxTokens
    /\ LET first == DOMAIN users = {} \/ e \in AdminEmails
           row == [role |-> IF first THEN "ADMIN" ELSE "USER", status |-> "ACTIVE",
                   verified |-> ~ RequireVerification, epoch |-> 0,
                   hash |-> HashPassword(p)]
       IN  Begin(w, "signup", [NoEffect EXCEPT !.created = [x \in {e} |-> row],
                                               !.token = NewToken(e, "verify_email")])

VerifyEmail(w, t) ==
    /\ tokens[t].purpose = "verify_email"
    /\ IsValid(tokens[t])
    /\ LET e == tokens[t].user
       IN  Begin(w, "verify",
                 [NoEffect EXCEPT !.changed = Change(e, [users[e] EXCEPT !.verified = TRUE]),
                                  !.use = {t}])

ResendVerification(w, e) ==
    /\ ~ users[e].verified
    /\ Len(tokens) < MaxTokens
    /\ Begin(w, "resend", IssueToken(e, "verify_email"))

\* Refused whatever the password: only the audit trail sees it.
LoginLockedOut(e) == IsLockedOut(e) /\ UNCHANGED vars

\* An unknown address, or a wrong password.
FailedLogin(w, e) ==
    /\ ~ IsLockedOut(e)
    /\ Len(failures[e]) < MaxFailures
    /\ Begin(w, "login", [NoEffect EXCEPT !.failed = {e}])

MayLogin(e) == ~ IsLockedOut(e) /\ users[e].status = "ACTIVE"

MustVerify(e) == RequireVerification /\ ~ users[e].verified

LoginUnverified(w, e) ==
    /\ MayLogin(e) /\ MustVerify(e)
    /\ Len(tokens) < MaxTokens
    /\ Begin(w, "login", IssueToken(e, "verify_email"))

\* An outdated hash is replaced by one of the password just typed in.
Login(w, e) ==
    /\ MayLogin(e) /\ ~ MustVerify(e)
    /\ Len(sessions) < MaxSessions
    /\ LET row == [users[e] EXCEPT !.hash.outdated = FALSE]
           session == [NoEffect EXCEPT !.session = NewSession(e, row)]
       IN  Begin(w, "login", IF row = users[e] THEN session
                             ELSE [session EXCEPT !.changed = Change(e, row)])

Logout(w, s) == Begin(w, "logout", [NoEffect EXCEPT !.revoke = {s}])

RequestPasswordReset(w, e) ==
    /\ users[e].status # "DELETED"
    /\ Len(tokens) < MaxTokens
    /\ Begin(w, "forgot", IssueToken(e, "reset_password"))

ValidReset(t) == tokens[t].purpose = "reset_password" /\ IsValid(tokens[t])

\* The link is burnt before the passwords typed in are compared and rated, and
\* the route commits either way.
ResetRejected(w, t) ==
    /\ ValidReset(t)
    /\ Begin(w, "reset", [NoEffect EXCEPT !.use = {t}])

ResetPassword(w, t, p) ==
    /\ ValidReset(t)
    /\ LET e == tokens[t].user
           row == [users[e] EXCEPT !.hash = HashPassword(p), !.verified = TRUE]
       IN  /\ row.epoch < MaxEpoch
           /\ Begin(w, "reset", [RevokeAllSessions(e, row) EXCEPT !.use = {t}])

\* The route passes the new password under a name that the service does not
\* take (routes_auth.py, `password`; service.py, `new_password`): it fails with an
\* error before anything is written.
ChangePassword(s) == Resolves(s) /\ UNCHANGED vars

RevokeSessions(w, s) ==
    /\ Resolves(s)
    /\ users[sessions[s].user].epoch < MaxEpoch
    /\ Begin(w, "revoke", RevokeAllSessions(sessions[s].user, users[sessions[s].user]))

\* Mutant: an administrator may act on their own account.
ActsOnAnyone(s, e) == Resolves(s) /\ users[sessions[s].user].role = "ADMIN"

\* An administrator acts on an account other than their own.
ActsOn(s, e) ==
    /\ Resolves(s)
    /\ users[sessions[s].user].role = "ADMIN"
    /\ sessions[s].user # e

\* Mutant: a suspension relies on the status check of every request.
SetStatusOnly(e, status) ==
    [NoEffect EXCEPT !.changed = Change(e, [users[e] EXCEPT !.status = status])]

SetAccountStatus(e, status) ==
    LET row == [users[e] EXCEPT !.status = status]
    IN  IF status = "ACTIVE" THEN [NoEffect EXCEPT !.changed = Change(e, row)]
        ELSE RevokeAllSessions(e, row)

ChangeStatus(w, s, e, status) ==
    /\ ActsOn(s, e)
    /\ status = "ACTIVE" \/ users[e].epoch < MaxEpoch
    /\ Begin(w, "status",
             [SetAccountStatus(e, status) EXCEPT !.actor = {sessions[s].user}])

ChangeRole(w, s, e, role) ==
    /\ ActsOn(s, e)
    /\ Begin(w, "role",
             [NoEffect EXCEPT !.changed = Change(e, [users[e] EXCEPT !.role = role]),
                              !.actor = {sessions[s].user}])

------------------------------------------------------------------------------
(* Commit: new rows, changed columns, and flags that are only ever set. *)

Column(stored, read, dirty) == IF dirty = read THEN stored ELSE dirty

WriteUser(stored, read, dirty) ==
    [role |-> Column(stored.role, read.role, dirty.role),
     status |-> Column(stored.status, read.status, dirty.status),
     verified |-> Column(stored.verified, read.verified, dirty.verified),
     epoch |-> Column(stored.epoch, read.epoch, dirty.epoch),
     hash |-> Column(stored.hash, read.hash, dirty.hash)]

WriteUsers(effect) ==
    [e \in DOMAIN users \cup DOMAIN effect.created |->
        IF e \in DOMAIN effect.created THEN effect.created[e]
        ELSE IF e \in DOMAIN effect.changed
        THEN WriteUser(users[e], effect.changed[e].read, effect.changed[e].dirty)
        ELSE users[e]]

Write(effect) ==
    /\ users' = WriteUsers(effect)
    /\ sessions' = [s \in DOMAIN sessions |->
                        [sessions[s] EXCEPT !.revoked = @ \/ s \in effect.revoke]]
                   \o effect.session
    /\ tokens' = [t \in DOMAIN tokens |->
                        [tokens[t] EXCEPT !.used = @ \/ t \in effect.use]]
                 \o effect.token
    /\ failures' = [e \in Emails |->
                        IF e \in effect.failed THEN Append(failures[e], now) ELSE failures[e]]

\* The address of a sign-up was taken meanwhile: the insertion is refused.
Taken(effect) == DOMAIN effect.created \cap DOMAIN users # {}

Commit(w) ==
    \E r \in inflight :
        /\ r.by = w
        /\ IF Taken(r.effect) THEN UNCHANGED <<users, sessions, tokens, failures>>
           ELSE Write(r.effect)
        /\ inflight' = inflight \ {r}
        /\ now' = now

\* A request is short against every deadline.
Tick ==
    /\ inflight = {}
    /\ now < MaxNow
    /\ now' = now + 1
    /\ UNCHANGED <<users, sessions, tokens, failures, inflight>>

\* The program restarts with a higher cost.
RaiseCost ==
    /\ HashUpgrade
    /\ inflight = {}
    /\ users' = [e \in DOMAIN users |-> [users[e] EXCEPT !.hash.outdated = TRUE]]
    /\ UNCHANGED <<now, sessions, tokens, failures, inflight>>

------------------------------------------------------------------------------
Init ==
    /\ now = 0
    /\ users = NoFunction
    /\ sessions = <<>>
    /\ tokens = <<>>
    /\ failures = [e \in Emails |-> <<>>]
    /\ inflight = {}

Visitor(w, e) ==
    \/ LoginLockedOut(e)
    \/ FailedLogin(w, e)
    \/ \E p \in Passwords : Signup(w, e, p)

Owner(w, e) ==
    \/ ResendVerification(w, e)
    \/ LoginUnverified(w, e)
    \/ Login(w, e)
    \/ RequestPasswordReset(w, e)

Follow(w, t) ==
    \/ VerifyEmail(w, t)
    \/ ResetRejected(w, t)
    \/ \E p \in Passwords : ResetPassword(w, t, p)

SignedIn(w, s) ==
    \/ Logout(w, s)
    \/ RevokeSessions(w, s)
    \/ ChangePassword(s)

Administer(w, s, e) ==
    \/ \E status \in AccountStatus : ChangeStatus(w, s, e, status)
    \/ \E role \in Role : ChangeRole(w, s, e, role)

Next ==
    \/ \E w \in Requests :
        \/ \E e \in Emails : Visitor(w, e)
        \/ \E e \in DOMAIN users : Owner(w, e)
        \/ \E t \in DOMAIN tokens : Follow(w, t)
        \/ \E s \in DOMAIN sessions : SignedIn(w, s)
        \/ \E s \in DOMAIN sessions, e \in DOMAIN users : Administer(w, s, e)
        \/ Commit(w)
    \/ Tick
    \/ RaiseCost

Spec == Init /\ [][Next]_vars

------------------------------------------------------------------------------
(* Type invariant *)

Effects(f) ==
    /\ DOMAIN f.created \subseteq Emails
    /\ f.created \in [DOMAIN f.created -> User]
    /\ DOMAIN f.changed \subseteq DOMAIN users
    /\ f.changed \in [DOMAIN f.changed -> [read : User, dirty : User]]
    /\ f.revoke \subseteq DOMAIN sessions
    /\ f.use \subseteq DOMAIN tokens
    /\ f.session \in Seq(UserSession)
    /\ f.token \in Seq(OneTimeToken)
    /\ f.failed \subseteq Emails
    /\ f.actor \subseteq Emails

\* Every variable keeps its type, and what a request in flight is about to
\* write names rows and accounts that exist.
TypeOK ==
    /\ now \in Nat
    /\ DOMAIN users \subseteq Emails
    /\ users \in [DOMAIN users -> User]
    /\ sessions \in Seq(UserSession)
    /\ tokens \in Seq(OneTimeToken)
    /\ failures \in [Emails -> Seq(Nat)]
    /\ \A r \in inflight : r.by \in Requests /\ r.op \in Operations /\ Effects(r.effect)

(* What holds while sign-ins overlap anything, and for the last of these  *)
(* changes of role as well, and nothing else overlaps                     *)

\* However a sign-in races a reset or a suspension, a
\* cookie that still works was opened with the password the account has now
\* (the epoch column, resolve_session against authenticate).
SessionsFollowPassword ==
    \A s \in DOMAIN sessions :
        Resolves(s) => sessions[s].password = users[sessions[s].user].hash.password

\* A session that stopped working never works again, reactivation of its
\* account and a sign-in that overlapped the revocation included.
NeverRevived == [][\A s \in DOMAIN sessions : Resolves(s)' => Resolves(s)]_vars

\* The lockout bounds guesses although sign-ins check the count before they
\* record their own failure: only those already under way exceed it.
FailuresBounded ==
    \A e \in Emails :
        Cardinality(RecentFailures(e)) < LoginMaxAttempts + Cardinality(Requests)

\* Of the reset links sent to a user only the latest can work (issue_token).
LatestLinkOnly ==
    \A t \in DOMAIN tokens :
        tokens[t].purpose = "reset_password"
            => \A earlier \in Outstanding(tokens[t].user, "reset_password") : earlier >= t

\* Once there are accounts, one of them is an administrator who can sign in.
AdminRemains == DOMAIN users # {} => \E e \in DOMAIN users : IsAdmin(e)

\* Administrators cannot change themselves ("that is how a system ends up with
\* none", routes_admin.py, change_role), but two may change each other.  The last
\* one is lost only to a request whose own administrator was deposed between its
\* check and its commit.
LastAdminLostToDeposed ==
    [][ AdminRemains =>
          \/ AdminRemains'
          \/ \E r \in inflight \ inflight' : \E a \in r.effect.actor : ~ IsAdmin(a) ]_vars
==============================================================================
