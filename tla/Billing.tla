------------------------------- MODULE Billing -------------------------------
(***************************************************************************)
(* Subscriptions, payments and the jobs and routes that change them        *)
(* (src/backend/billing, routes_billing.py, routes_admin.py and the expiry *)
(* job of jobs/scheduler.py).                                              *)
(*                                                                         *)
(* Every route and job runs in a database session of its own.  It reads    *)
(* rows, changes the objects in memory and commits; no row is locked, the  *)
(* sessions do not autoflush, and an UPDATE names only the columns whose   *)
(* value changed.  A request is therefore two steps here: one that reads   *)
(* the tables and decides (the action named for the route), and Commit,    *)
(* which writes the changed columns over whatever is stored by then.       *)
(*                                                                         *)
(* Left out: prices, audit rows, e-mails, external identifiers other than  *)
(* whether a gateway knows the payment, the columns cancelled_at, ended_at *)
(* and subscription_id, and mark_past_due, which nothing calls.            *)
(***************************************************************************)
EXTENDS Integers, Sequences, FiniteSets

CONSTANTS
    Users,
    Requests,           \* the threads that serve HTTP requests
    Scheduler,          \* the thread of the background jobs
    Overlap,            \* bound: requests in flight that another may overlap
    TrialDays,
    PeriodDays,
    GatewayStatuses,    \* what a gateway reports; {} when none is registered
    MaxDay,             \* bound: the last day
    MaxEnd,             \* bound: no period is prolonged past this day
    MaxRows,            \* bound: subscription rows of a user
    MaxPayments         \* bound: payment rows

SubscriptionStatus == {"TRIAL", "ACTIVE", "PAST_DUE", "CANCELLED", "EXPIRED"}
PaymentStatus == {"PENDING", "SUCCEEDED", "FAILED", "REFUNDED", "CANCELLED"}

ASSUME BillingAssumption ==
    /\ TrialDays \in Nat \ {0}
    /\ PeriodDays \in Nat \ {0}
    /\ GatewayStatuses \subseteq PaymentStatus
    /\ {Overlap, MaxDay, MaxEnd, MaxRows, MaxPayments} \subseteq Nat
    /\ Scheduler \notin Requests

VARIABLES
    now,        \* the day
    subs,       \* subs[u]: the subscription rows of u, oldest first
    payments,   \* the payment rows, oldest first
    inflight    \* requests that have read and not yet committed

vars == <<now, subs, payments, inflight>>

Workers == Requests \cup {Scheduler}

Subscription == [status : SubscriptionStatus, trialEnd : Nat, periodEnd : Nat]

Payment == [user : Users, status : PaymentStatus, atGateway : BOOLEAN,
            start : Nat, end : Nat]

Tables == [subs : [Users -> Seq(Subscription)], payments : Seq(Payment)]

Request == [by : Workers, read : Tables, dirty : Tables]

------------------------------------------------------------------------------
(* Entitlement, as every protected page asks for it. *)

GrantsAccess(status) == status \in {"TRIAL", "ACTIVE", "CANCELLED"}

IsEntitled(sub) ==
    /\ GrantsAccess(sub.status)
    /\ IF sub.status = "TRIAL" THEN sub.trialEnd > now ELSE sub.periodEnd > now

AnyEntitled(rows) == \E i \in DOMAIN rows : IsEntitled(rows[i])

\* The newest entitling row, else the newest row.
GetSubscription(rows) ==
    CHOOSE i \in DOMAIN rows :
        IF AnyEntitled(rows)
        THEN IsEntitled(rows[i]) /\ \A j \in i+1 .. Len(rows) : ~ IsEntitled(rows[j])
        ELSE i = Len(rows)

HasAccess(u) == AnyEntitled(subs[u])

------------------------------------------------------------------------------
(* What the operations make of the rows they read. *)

Later(a, b) == IF a >= b THEN a ELSE b

NewTrial == [status |-> "TRIAL", trialEnd |-> now + TrialDays, periodEnd |-> now + TrialDays]

\* Mutant: the check for a running subscription is missing.
WithTrialAlways(rows) == Append(rows, NewTrial)

WithTrial(rows) == IF AnyEntitled(rows) THEN rows ELSE Append(rows, NewTrial)

\* Mutants: a renewal starts today; a late renewal starts at the old end.
ActivatedFromNow(sub) ==
    [sub EXCEPT !.status = "ACTIVE", !.periodEnd = now + PeriodDays]

ActivatedFromEnd(sub) ==
    [sub EXCEPT !.status = "ACTIVE", !.periodEnd = @ + PeriodDays]

Activated(sub) ==
    [sub EXCEPT !.status = "ACTIVE", !.periodEnd = Later(now, @) + PeriodDays]

Settled(payment, sub) ==
    [payment EXCEPT !.status = "SUCCEEDED",
                    !.start = sub.periodEnd - PeriodDays, !.end = sub.periodEnd]

Cancelled(sub) == [sub EXCEPT !.status = "CANCELLED"]

Resumed(sub) == IF IsEntitled(sub) THEN [sub EXCEPT !.status = "ACTIVE"] ELSE sub

\* Mutants: an undeclared status; a cancelled row retired before its period
\* ends; a cancelled row never retired.
ExpiredMisspelt(sub) == IF IsEntitled(sub) THEN sub ELSE [sub EXCEPT !.status = "ENDED"]

ExpiredEarly(sub) ==
    IF IsEntitled(sub) /\ sub.status # "CANCELLED" THEN sub ELSE [sub EXCEPT !.status = "EXPIRED"]

ExpiredUncancelled(sub) ==
    IF IsEntitled(sub) \/ sub.status = "CANCELLED" THEN sub ELSE [sub EXCEPT !.status = "EXPIRED"]

Expired(sub) == IF IsEntitled(sub) THEN sub ELSE [sub EXCEPT !.status = "EXPIRED"]

\* The route opens a trial first when the user has no subscription at all.
OrTrial(rows) == IF rows = <<>> THEN WithTrial(rows) ELSE rows

------------------------------------------------------------------------------
(* A request reads, decides, and commits what it changed. *)

Dirty(s, p) == [subs |-> s, payments |-> p]

Stored == Dirty(subs, payments)

Busy(w) == \E r \in inflight : r.by = w

\* The request of worker w has read the stored tables and holds `dirty`.  One
\* that changed nothing writes nothing, which is no step.
Begin(w, dirty) ==
    /\ dirty # Stored
    /\ ~ Busy(w)
    /\ inflight = {} \/ (Overlap > 0 /\ Cardinality(inflight) <= Overlap)
    /\ inflight' = inflight \cup {[by |-> w, read |-> Stored, dirty |-> dirty]}
    /\ UNCHANGED <<now, subs, payments>>

WithRows(u, rows) == Dirty([subs EXCEPT ![u] = rows], payments)

BeginTrial(w, u) ==
    /\ Len(subs[u]) < MaxRows
    /\ Begin(w, WithRows(u, WithTrial(subs[u])))

Cancel(w, u) ==
    /\ subs[u] # <<>>
    /\ LET i == GetSubscription(subs[u])
       IN  Begin(w, WithRows(u, [subs[u] EXCEPT ![i] = Cancelled(@)]))

Resume(w, u) ==
    /\ subs[u] # <<>>
    /\ LET i == GetSubscription(subs[u])
       IN  Begin(w, WithRows(u, [subs[u] EXCEPT ![i] = Resumed(@)]))

\* Row i of `rows` is activated and payment p is settled for its new period.
Activate(w, p, rows, i, payment) ==
    LET sub == Activated(rows[i])
    IN  /\ sub.periodEnd <= MaxEnd
        /\ Begin(w, Dirty([subs EXCEPT ![payment.user] = [rows EXCEPT ![i] = sub]],
                          [payments EXCEPT ![p] = Settled(payment, sub)]))

\* Mutant: the check that the payment is not confirmed already is missing.
ConfirmAgain(w, p) ==
    LET rows == OrTrial(subs[payments[p].user])
    IN  Activate(w, p, rows, GetSubscription(rows), [payments[p] EXCEPT !.atGateway = FALSE])

\* An administrator types in the reference of a transfer that arrived, which
\* replaces the identifier the gateway knows the payment by.
ConfirmPayment(w, p) ==
    /\ payments[p].status # "SUCCEEDED"
    /\ LET rows == OrTrial(subs[payments[p].user])
       IN  Activate(w, p, rows, GetSubscription(rows),
                    [payments[p] EXCEPT !.atGateway = FALSE])

\* Mutant: the payment is found by a key the confirmation does not replace.
WebhookByRow(w, p, s) == Begin(w, Dirty(subs, [payments EXCEPT ![p].status = s]))

\* A gateway reports status s: once, again, late or out of order.
Webhook(w, p, s) ==
    /\ payments[p].atGateway
    /\ IF s = "SUCCEEDED"
       THEN LET rows == OrTrial(subs[payments[p].user])
            IN  Activate(w, p, rows, Len(rows), payments[p])
       ELSE Begin(w, Dirty(subs, [payments EXCEPT ![p].status = s]))

ExpireSubscriptions(w) ==
    Begin(w, Dirty([u \in Users |-> [i \in DOMAIN subs[u] |-> Expired(subs[u][i])]],
                   payments))

\* Recording an intent to pay only inserts a row.
Checkout(u, atGateway) ==
    /\ Len(payments) < MaxPayments
    /\ payments' = Append(payments, [user |-> u, status |-> "PENDING", atGateway |-> atGateway,
                                     start |-> now, end |-> now + PeriodDays])
    /\ UNCHANGED <<now, subs, inflight>>

ManualCheckout(u) == Checkout(u, FALSE)

GatewayCheckout(u) == GatewayStatuses # {} /\ Checkout(u, TRUE)

------------------------------------------------------------------------------
(* Commit: changed columns of the rows read, and the rows added. *)

Column(stored, read, dirty) == IF dirty = read THEN stored ELSE dirty

WriteSub(stored, read, dirty) ==
    [status |-> Column(stored.status, read.status, dirty.status),
     trialEnd |-> Column(stored.trialEnd, read.trialEnd, dirty.trialEnd),
     periodEnd |-> Column(stored.periodEnd, read.periodEnd, dirty.periodEnd)]

WritePayment(stored, read, dirty) ==
    [user |-> stored.user,
     status |-> Column(stored.status, read.status, dirty.status),
     atGateway |-> Column(stored.atGateway, read.atGateway, dirty.atGateway),
     start |-> Column(stored.start, read.start, dirty.start),
     end |-> Column(stored.end, read.end, dirty.end)]

WriteSubs(stored, read, dirty) ==
    [i \in 1 .. Len(stored) + Len(dirty) - Len(read) |->
        IF i <= Len(read) THEN WriteSub(stored[i], read[i], dirty[i])
        ELSE IF i <= Len(stored) THEN stored[i]
        ELSE dirty[i - Len(stored) + Len(read)]]

WritePayments(stored, read, dirty) ==
    [p \in 1 .. Len(stored) |->
        IF p <= Len(read) THEN WritePayment(stored[p], read[p], dirty[p]) ELSE stored[p]]

Commit(w) ==
    \E r \in inflight :
        /\ r.by = w
        /\ subs' = [u \in Users |-> WriteSubs(subs[u], r.read.subs[u], r.dirty.subs[u])]
        /\ payments' = WritePayments(payments, r.read.payments, r.dirty.payments)
        /\ inflight' = inflight \ {r}
        /\ now' = now

\* A request takes seconds and the clock counts days.
Tick ==
    /\ inflight = {}
    /\ now < MaxDay
    /\ now' = now + 1
    /\ UNCHANGED <<subs, payments, inflight>>

------------------------------------------------------------------------------
Init ==
    /\ now = 0
    /\ subs = [u \in Users |-> <<>>]
    /\ payments = <<>>
    /\ inflight = {}

SubscriptionRoute(w, u) == BeginTrial(w, u) \/ Cancel(w, u) \/ Resume(w, u)

PaymentRoute(w, p) ==
    \/ ConfirmPayment(w, p)
    \/ \E s \in GatewayStatuses : Webhook(w, p, s)

Next ==
    \/ \E u \in Users : ManualCheckout(u) \/ GatewayCheckout(u)
    \/ \E w \in Requests, u \in Users : SubscriptionRoute(w, u)
    \/ \E w \in Requests, p \in DOMAIN payments : PaymentRoute(w, p)
    \/ \E w \in Workers : ExpireSubscriptions(w) \/ Commit(w)
    \/ Tick

Spec == Init /\ [][Next]_vars

\* The expiry job runs every day, and a request that began ends.  The job's
\* thread waits for no request: only the bound Overlap makes it wait here, so
\* being let in again and again has to be enough.
Fairness ==
    /\ SF_vars(ExpireSubscriptions(Scheduler))
    /\ \A w \in Workers : WF_vars(Commit(w))

FairSpec == Spec /\ Fairness

------------------------------------------------------------------------------
(* Type invariant *)

\* Every variable keeps its type, requests in flight included.
TypeOK ==
    /\ now \in Nat
    /\ subs \in [Users -> Seq(Subscription)]
    /\ payments \in Seq(Payment)
    /\ inflight \subseteq Request

(* What holds when requests do not overlap *)

DeadlineOf(rows) == IF rows = <<>> THEN 0 ELSE rows[Len(rows)].periodEnd

Deadline(u) == DeadlineOf(subs[u])

\* Access is decided from a status, two deadlines and any number of rows, and
\* yet it is exactly this: the newest row's period has not ended.  No cancelled,
\* resumed, expired or superseded row gives or withholds access (is_entitled,
\* get_subscription, and every operation that writes a status).
AccessIsDeadline == \A u \in Users : HasAccess(u) <=> Deadline(u) > now

\* A customer is never locked out of time that a received payment bought,
\* whatever was cancelled, resumed, expired, retried or reported since.
PaidTimeHonoured ==
    \A p \in DOMAIN payments :
        payments[p].status = "SUCCEEDED" /\ payments[p].end > now
            => HasAccess(payments[p].user)

\* No day is sold twice: the periods of two received payments of one user do
\* not overlap (activate_subscription extends from the existing end).
PaidPeriodsDisjoint ==
    \A p, q \in DOMAIN payments :
        /\ p # q
        /\ payments[p].user = payments[q].user
        /\ payments[p].status = "SUCCEEDED"
        /\ payments[q].status = "SUCCEEDED"
        => payments[p].end <= payments[q].start \/ payments[q].end <= payments[p].start

\* A late gateway callback never undoes what an administrator confirmed: the
\* reference typed in on confirmation replaces the one the callback looks up.
ConfirmedStays ==
    [][\A p \in DOMAIN payments :
          payments[p].status = "SUCCEEDED" /\ ~ payments[p].atGateway
              => payments'[p].status = "SUCCEEDED"]_vars

\* The tables of subscriptions and payments implement one deadline per user.
Promise == INSTANCE Entitlement
               WITH today <- now, until <- [u \in Users |-> Deadline(u)]

\* What Entitlement promises a customer, billing keeps.
KeepsPromise == Promise!Spec

(* What holds although requests overlap *)

Received(u) == {p \in DOMAIN payments : payments[p].user = u /\ payments[p].status = "SUCCEEDED"}

\* Without a gateway to repeat callbacks, nobody holds more time than a trial
\* and one period per received payment, however many administrators confirm
\* the same or different payments at once.
NoFreeTime ==
    \A u \in Users : \A i \in DOMAIN subs[u] :
        subs[u][i].periodEnd <= now + TrialDays + PeriodDays * Cardinality(Received(u))

\* A lapsed row is retired by the daily job although other requests keep
\* overwriting its status (expire_due_subscriptions against cancel and trial).
LapsedRetired ==
    \A u \in Users : \A i \in 1 .. MaxRows + Overlap :
        i \in DOMAIN subs[u]
            ~> i \in DOMAIN subs[u] /\ (subs[u][i].status = "EXPIRED" \/ IsEntitled(subs[u][i]))

(* What the code's documentation says and its behaviour does not keep *)

\* jobs/scheduler.py:84-85: the expiry job "only tidies the stored status", so
\* no step but the calendar takes access away.
ExpiryOnlyTidies ==
    [][now' = now => \A u \in Users : HasAccess(u) => HasAccess(u)']_vars
==============================================================================
