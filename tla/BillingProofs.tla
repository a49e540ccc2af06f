---------------------------- MODULE BillingProofs ----------------------------
(***************************************************************************)
(* Proofs about Billing, for every value of its constants.                 *)
(***************************************************************************)
EXTENDS Billing, SequenceTheorems, FiniteSetTheorems, WellFoundedInduction, TLAPS

------------------------------------------------------------------------------
(* The subscription a lookup returns. *)

\* A nonempty set of naturals has a least element.
LEMMA NatHasLeast ==
    ASSUME NEW M, M \subseteq Nat, M # {}
    PROVE  \E x \in M : \A y \in M : ~ (y < x)
<1> DEFINE R == OpToRel(<, Nat)
<1>1. IsWellFoundedOn(R, Nat)
  BY NatLessThanWellFounded
<1>2. \A x, y \in Nat : y < x => <<y, x>> \in R
  BY DEF R, OpToRel
<1> HIDE DEF R
<1>3. \E x \in M : \A y \in M : ~ (<<y, x>> \in R)
  BY <1>1, WFMin
<1> QED
  BY <1>2, <1>3

\* A nonempty set of positions of a sequence has a greatest element.
LEMMA HasGreatest ==
    ASSUME NEW n \in Nat, NEW T, T \subseteq 1 .. n, T # {}
    PROVE  \E x \in T : \A y \in T : y <= x
<1> DEFINE M == {n - x : x \in T}
<1>1. \A x \in T : x \in Int /\ n - x \in Nat
  OBVIOUS
<1>2. M \subseteq Nat /\ M # {}
  BY <1>1
<1>3. PICK x \in T : \A y \in T : ~ (n - y < n - x)
  BY <1>2, NatHasLeast
<1> QED
  BY <1>1, <1>3

\* get_subscription returns one of the user's rows.
LEMMA GetSubscriptionInRows ==
    ASSUME NEW rows \in Seq(Subscription), rows # <<>>
    PROVE  GetSubscription(rows) \in 1 .. Len(rows)
<1> DEFINE E == {i \in DOMAIN rows : IsEntitled(rows[i])}
           Wanted(i) == IF AnyEntitled(rows)
                        THEN IsEntitled(rows[i])
                             /\ \A j \in i+1 .. Len(rows) : ~ IsEntitled(rows[j])
                        ELSE i = Len(rows)
<1>1. DOMAIN rows = 1 .. Len(rows) /\ Len(rows) \in Nat \ {0}
  BY EmptySeq, LenProperties
<1>2. \E i \in DOMAIN rows : Wanted(i)
  <2>1. CASE AnyEntitled(rows)
    <3>1. E \subseteq 1 .. Len(rows) /\ E # {}
      BY <1>1, <2>1 DEF AnyEntitled
    <3>2. PICK i \in E : \A j \in E : j <= i
      BY <1>1, <3>1, HasGreatest
    <3>3. \A j \in i+1 .. Len(rows) : j \notin E
      BY <1>1, <3>1, <3>2
    <3>4. \A j \in i+1 .. Len(rows) : ~ IsEntitled(rows[j])
      BY <1>1, <3>1, <3>2, <3>3
    <3> QED
      BY <2>1, <3>2, <3>4
  <2>2. CASE ~ AnyEntitled(rows)
    BY <1>1, <2>2
  <2> QED
    BY <2>1, <2>2
<1>3. GetSubscription(rows) = CHOOSE i \in DOMAIN rows : Wanted(i)
  BY DEF GetSubscription
<1> HIDE DEF Wanted
<1> QED
  BY <1>1, <1>2, <1>3

------------------------------------------------------------------------------
(* Types *)

\* The operations on one row keep its type.
LEMMA RowTypes ==
    ASSUME now \in Nat, NEW sub \in Subscription
    PROVE  /\ Activated(sub) \in Subscription
           /\ Activated(sub).periodEnd - PeriodDays \in Nat
           /\ Cancelled(sub) \in Subscription
           /\ Resumed(sub) \in Subscription
           /\ Expired(sub) \in Subscription
           /\ NewTrial \in Subscription
<1>1. TrialDays \in Nat /\ PeriodDays \in Nat
  BY BillingAssumption
<1>2. Later(now, sub.periodEnd) \in Nat
  BY DEF Later, Subscription
<1>3. Activated(sub) \in Subscription /\ Activated(sub).periodEnd - PeriodDays \in Nat
  <2> DEFINE end == Later(now, sub.periodEnd) + PeriodDays
  <2>1. end \in Nat /\ end - PeriodDays \in Nat
    BY <1>1, <1>2
  <2> HIDE DEF end
  <2>2. Activated(sub) = [sub EXCEPT !.status = "ACTIVE", !.periodEnd = end]
    BY DEF Activated, end
  <2> QED
    BY <2>1, <2>2 DEF Subscription, SubscriptionStatus
<1>4. Cancelled(sub) \in Subscription
  BY DEF Cancelled, Subscription, SubscriptionStatus
<1>5. Resumed(sub) \in Subscription
  BY DEF Resumed, Subscription, SubscriptionStatus
<1>6. Expired(sub) \in Subscription
  BY DEF Expired, Subscription, SubscriptionStatus
<1>7. NewTrial \in Subscription
  BY <1>1 DEF NewTrial, Subscription, SubscriptionStatus
<1> QED
  BY <1>3, <1>4, <1>5, <1>6, <1>7

LEMMA WithTrialType ==
    ASSUME now \in Nat, NEW rows \in Seq(Subscription)
    PROVE  /\ WithTrial(rows) \in Seq(Subscription)
           /\ OrTrial(rows) \in Seq(Subscription)
           /\ OrTrial(rows) # <<>>
           /\ Len(rows) <= Len(WithTrial(rows))
           /\ Len(rows) <= Len(OrTrial(rows))
<1>1. NewTrial \in Subscription
  BY BillingAssumption DEF NewTrial, Subscription, SubscriptionStatus
<1>2. ~ AnyEntitled(<<>>)
  BY DEF AnyEntitled
<1> QED
  BY <1>1, <1>2 DEF WithTrial, OrTrial

\* What a request holds fits what it read, and what it read is still a prefix
\* of what is stored: rows are added and never removed.
Fits(r) ==
    /\ \A u \in Users : /\ Len(r.read.subs[u]) <= Len(r.dirty.subs[u])
                        /\ Len(r.read.subs[u]) <= Len(subs[u])
    /\ Len(r.dirty.payments) = Len(r.read.payments)
    /\ Len(r.read.payments) <= Len(payments)

TypeInv == TypeOK /\ \A r \in inflight : Fits(r)

\* Reading and deciding keeps the types, whatever well-typed rows result.
LEMMA BeginType ==
    ASSUME TypeInv, NEW w \in Workers,
           NEW s \in [Users -> Seq(Subscription)], NEW p \in Seq(Payment),
           \A u \in Users : Len(subs[u]) <= Len(s[u]),
           Len(p) = Len(payments),
           Begin(w, Dirty(s, p))
    PROVE  TypeInv'
<1> DEFINE r == [by |-> w, read |-> Stored, dirty |-> Dirty(s, p)]
<1>1. r \in Request
  BY DEF TypeInv, TypeOK, Request, Tables, Stored, Dirty
<1>2. \A u \in Users : Len(subs[u]) \in Nat
  BY DEF TypeInv, TypeOK
<1>3. Fits(r)
  BY <1>2 DEF Fits, Stored, Dirty, TypeInv, TypeOK
<1>4. inflight' = inflight \cup {r} /\ UNCHANGED <<now, subs, payments>>
  BY DEF Begin
<1>5. TypeOK'
  BY <1>1, <1>4 DEF TypeInv, TypeOK
<1>6. \A q \in inflight' : Fits(q)'
  BY <1>3, <1>4 DEF TypeInv, Fits
<1> QED
  BY <1>5, <1>6 DEF TypeInv

\* Changing one subscription row of one user keeps the type of the table.
LEMMA RowWritten ==
    ASSUME TypeInv, NEW u \in Users, NEW rows \in Seq(Subscription),
           Len(subs[u]) <= Len(rows)
    PROVE  /\ [subs EXCEPT ![u] = rows] \in [Users -> Seq(Subscription)]
           /\ \A v \in Users : Len(subs[v]) <= Len([subs EXCEPT ![u] = rows][v])
<1>1. \A v \in Users : Len(subs[v]) \in Nat
  BY DEF TypeInv, TypeOK
<1> QED
  BY <1>1 DEF TypeInv, TypeOK

LEMMA SubscriptionRouteType ==
    ASSUME TypeInv, NEW w \in Workers, NEW u \in Users, SubscriptionRoute(w, u)
    PROVE  TypeInv'
<1> DEFINE rows == subs[u]
           i == GetSubscription(rows)
<1>1. rows \in Seq(Subscription) /\ now \in Nat /\ payments \in Seq(Payment)
  BY DEF TypeInv, TypeOK
<1>2. CASE BeginTrial(w, u)
  <2>1. WithTrial(rows) \in Seq(Subscription) /\ Len(rows) <= Len(WithTrial(rows))
    BY <1>1, WithTrialType
  <2> QED
    BY <1>1, <1>2, <2>1, RowWritten, BeginType DEF BeginTrial, WithRows
<1>3. ASSUME NEW sub \in Subscription, rows # <<>>,
             Begin(w, WithRows(u, [rows EXCEPT ![i] = sub]))
      PROVE  TypeInv'
  <2>1. i \in 1 .. Len(rows)
    BY <1>1, <1>3, GetSubscriptionInRows
  <2>2. /\ [rows EXCEPT ![i] = sub] \in Seq(Subscription)
        /\ Len([rows EXCEPT ![i] = sub]) = Len(rows)
    BY <1>1, <2>1, ExceptSeq
  <2>3. Len(rows) <= Len([rows EXCEPT ![i] = sub])
    BY <1>1, <2>2
  <2> QED
    BY <1>1, <1>3, <2>2, <2>3, RowWritten, BeginType DEF WithRows
<1>4. rows # <<>> => rows[i] \in Subscription
  BY <1>1, GetSubscriptionInRows
<1>5. CASE Cancel(w, u)
  BY <1>1, <1>3, <1>4, <1>5, RowTypes DEF Cancel
<1>6. CASE Resume(w, u)
  BY <1>1, <1>3, <1>4, <1>6, RowTypes DEF Resume
<1> QED
  BY <1>2, <1>5, <1>6 DEF SubscriptionRoute

LEMMA ActivateType ==
    ASSUME TypeInv, NEW w \in Workers, NEW p \in DOMAIN payments,
           NEW rows \in Seq(Subscription), NEW i \in 1 .. Len(rows),
           NEW payment \in Payment, Len(subs[payment.user]) <= Len(rows),
           Activate(w, p, rows, i, payment)
    PROVE  TypeInv'
<1> DEFINE sub == Activated(rows[i])
           u == payment.user
<1>1. now \in Nat /\ payments \in Seq(Payment) /\ u \in Users
  BY DEF TypeInv, TypeOK, Payment
<1>2. sub \in Subscription /\ sub.periodEnd - PeriodDays \in Nat
  BY <1>1, RowTypes
<1>3. Settled(payment, sub) \in Payment
  BY <1>2 DEF Settled, Payment, PaymentStatus, Subscription
<1>4. /\ [rows EXCEPT ![i] = sub] \in Seq(Subscription)
      /\ Len([rows EXCEPT ![i] = sub]) = Len(rows)
  BY <1>2, ExceptSeq
<1>5. /\ [payments EXCEPT ![p] = Settled(payment, sub)] \in Seq(Payment)
      /\ Len([payments EXCEPT ![p] = Settled(payment, sub)]) = Len(payments)
  BY <1>1, <1>3, LenProperties, ExceptSeq
<1>6. Begin(w, Dirty([subs EXCEPT ![u] = [rows EXCEPT ![i] = sub]],
                     [payments EXCEPT ![p] = Settled(payment, sub)]))
  BY DEF Activate
<1> HIDE DEF sub, u
<1> QED
  BY <1>1, <1>4, <1>5, <1>6, RowWritten, BeginType DEF u

LEMMA PaymentRouteType ==
    ASSUME TypeInv, NEW w \in Workers, NEW p \in DOMAIN payments, PaymentRoute(w, p)
    PROVE  TypeInv'
<1> DEFINE payment == payments[p]
           rows == OrTrial(subs[payment.user])
<1>1. /\ now \in Nat
      /\ payments \in Seq(Payment)
      /\ payment \in Payment
      /\ payment.user \in Users
      /\ subs[payment.user] \in Seq(Subscription)
  <2>1. /\ now \in Nat
        /\ payments \in Seq(Payment)
        /\ subs \in [Users -> Seq(Subscription)]
    BY DEF TypeInv, TypeOK
  <2>2. payment \in Payment
    BY <2>1, LenProperties
  <2>3. payment.user \in Users
    BY <2>2 DEF Payment
  <2> QED
    BY <2>1, <2>2, <2>3
<1>2. /\ rows \in Seq(Subscription)
      /\ rows # <<>>
      /\ Len(subs[payment.user]) <= Len(rows)
      /\ Len(rows) \in 1 .. Len(rows)
      /\ GetSubscription(rows) \in 1 .. Len(rows)
  BY <1>1, WithTrialType, GetSubscriptionInRows, EmptySeq
<1>3. CASE ConfirmPayment(w, p)
  <2>1. /\ [payment EXCEPT !.atGateway = FALSE] \in Payment
        /\ [payment EXCEPT !.atGateway = FALSE].user = payment.user
    BY <1>1 DEF Payment
  <2> QED
    BY <1>2, <1>3, <2>1, ActivateType DEF ConfirmPayment
<1>4. ASSUME NEW s \in GatewayStatuses, Webhook(w, p, s)
      PROVE  TypeInv'
  <2>1. CASE s = "SUCCEEDED"
    BY <1>1, <1>2, <1>4, <2>1, ActivateType DEF Webhook
  <2>2. CASE s # "SUCCEEDED"
    <3> DEFINE reported == [payment EXCEPT !.status = s]
    <3>1. reported \in Payment
      BY <1>1, BillingAssumption DEF Payment
    <3>2. /\ [payments EXCEPT ![p] = reported] \in Seq(Payment)
          /\ Len([payments EXCEPT ![p] = reported]) = Len(payments)
      BY <1>1, <3>1, LenProperties, ExceptSeq
    <3>3. Begin(w, Dirty(subs, [payments EXCEPT ![p] = reported]))
      BY <1>4, <2>2 DEF Webhook
    <3>4. /\ subs \in [Users -> Seq(Subscription)]
          /\ \A u \in Users : Len(subs[u]) <= Len(subs[u])
      BY DEF TypeInv, TypeOK
    <3> HIDE DEF reported
    <3> QED
      BY <3>2, <3>3, <3>4, BeginType
  <2> QED
    BY <2>1, <2>2
<1> QED
  BY <1>3, <1>4 DEF PaymentRoute

LEMMA ExpireType ==
    ASSUME TypeInv, NEW w \in Workers, ExpireSubscriptions(w)
    PROVE  TypeInv'
<1> DEFINE retired(u) == [i \in DOMAIN subs[u] |-> Expired(subs[u][i])]
           s == [u \in Users |-> retired(u)]
<1>1. ASSUME NEW u \in Users
      PROVE  retired(u) \in Seq(Subscription) /\ Len(retired(u)) = Len(subs[u])
  <2>1. subs[u] \in Seq(Subscription) /\ now \in Nat
    BY DEF TypeInv, TypeOK
  <2>2. \A i \in DOMAIN subs[u] : Expired(subs[u][i]) \in Subscription
    BY <2>1, LenProperties, RowTypes
  <2> QED
    BY <2>1, <2>2
<1>2. /\ s \in [Users -> Seq(Subscription)]
      /\ \A u \in Users : Len(subs[u]) <= Len(s[u])
  <2>1. \A u \in Users : Len(subs[u]) \in Nat
    BY DEF TypeInv, TypeOK
  <2> HIDE DEF retired
  <2> QED
    BY <1>1, <2>1
<1>3. Begin(w, Dirty(s, payments)) /\ payments \in Seq(Payment)
  BY DEF ExpireSubscriptions, TypeInv, TypeOK
<1> HIDE DEF s
<1> QED
  BY <1>2, <1>3, BeginType

LEMMA CheckoutType ==
    ASSUME TypeInv, NEW u \in Users, NEW g \in BOOLEAN, Checkout(u, g)
    PROVE  TypeInv'
<1> DEFINE new == [user |-> u, status |-> "PENDING", atGateway |-> g,
                   start |-> now, end |-> now + PeriodDays]
<1>1. new \in Payment
  BY BillingAssumption DEF TypeInv, TypeOK, Payment, PaymentStatus
<1>2. payments' = Append(payments, new) /\ UNCHANGED <<now, subs, inflight>>
  BY DEF Checkout
<1> HIDE DEF new
<1>3. /\ payments' \in Seq(Payment)
      /\ Len(payments') = Len(payments) + 1
      /\ Len(payments) \in Nat
  BY <1>1, <1>2 DEF TypeInv, TypeOK
<1>4. TypeOK'
  BY <1>2, <1>3 DEF TypeInv, TypeOK
<1>5. ASSUME NEW r \in inflight PROVE Fits(r)'
  <2>1. r.read.payments \in Seq(Payment)
    BY DEF TypeInv, TypeOK, Request, Tables
  <2>2. Len(r.read.payments) \in Nat
    BY <2>1, LenProperties
  <2> QED
    BY <1>2, <1>3, <2>2 DEF TypeInv, Fits
<1> QED
  BY <1>2, <1>4, <1>5 DEF TypeInv

\* A commit writes well-typed rows, removes none and keeps their order.
LEMMA WriteSubsType ==
    ASSUME NEW stored \in Seq(Subscription), NEW read \in Seq(Subscription),
           NEW dirty \in Seq(Subscription),
           Len(read) <= Len(stored), Len(read) <= Len(dirty)
    PROVE  /\ WriteSubs(stored, read, dirty) \in Seq(Subscription)
           /\ Len(stored) <= Len(WriteSubs(stored, read, dirty))
<1> DEFINE n == Len(stored) + Len(dirty) - Len(read)
           row(i) == IF i <= Len(read) THEN WriteSub(stored[i], read[i], dirty[i])
                     ELSE IF i <= Len(stored) THEN stored[i]
                     ELSE dirty[i - Len(stored) + Len(read)]
<1>1. n \in Nat /\ Len(stored) <= n /\ Len(stored) \in Nat /\ Len(read) \in Nat /\ Len(dirty) \in Nat
  BY LenProperties
<1>2. ASSUME NEW a \in Subscription, NEW b \in Subscription, NEW c \in Subscription
      PROVE  WriteSub(a, b, c) \in Subscription
  BY DEF WriteSub, Column, Subscription
<1>3. ASSUME NEW i \in 1 .. n PROVE row(i) \in Subscription
  <2>1. CASE i <= Len(read)
    <3>1. i \in 1 .. Len(stored) /\ i \in 1 .. Len(read) /\ i \in 1 .. Len(dirty)
      BY <1>1, <2>1
    <3> QED
      BY <1>2, <2>1, <3>1, ElementOfSeq
  <2>2. CASE i > Len(read) /\ i <= Len(stored)
    BY <1>1, <2>2, ElementOfSeq
  <2>3. CASE i > Len(stored)
    <3>1. i - Len(stored) + Len(read) \in 1 .. Len(dirty)
      BY <1>1, <2>3
    <3> QED
      BY <1>1, <2>3, <3>1, ElementOfSeq
  <2> QED
    BY <1>1, <2>1, <2>2, <2>3
<1>4. WriteSubs(stored, read, dirty) = [i \in 1 .. n |-> row(i)]
  BY DEF WriteSubs
<1> HIDE DEF n, row
<1> QED
  BY <1>1, <1>3, <1>4

LEMMA WritePaymentsType ==
    ASSUME NEW stored \in Seq(Payment), NEW read \in Seq(Payment), NEW dirty \in Seq(Payment),
           Len(read) <= Len(stored), Len(dirty) = Len(read)
    PROVE  /\ WritePayments(stored, read, dirty) \in Seq(Payment)
           /\ Len(WritePayments(stored, read, dirty)) = Len(stored)
<1> DEFINE row(p) == IF p <= Len(read) THEN WritePayment(stored[p], read[p], dirty[p])
                     ELSE stored[p]
<1>1. Len(stored) \in Nat /\ Len(read) \in Nat
  BY LenProperties
<1>2. ASSUME NEW a \in Payment, NEW b \in Payment, NEW c \in Payment
      PROVE  WritePayment(a, b, c) \in Payment
  BY DEF WritePayment, Column, Payment
<1>3. ASSUME NEW p \in 1 .. Len(stored) PROVE row(p) \in Payment
  <2>1. stored[p] \in Payment
    BY ElementOfSeq
  <2>2. CASE p <= Len(read)
    BY <1>1, <1>2, <2>1, <2>2, ElementOfSeq
  <2>3. CASE ~ (p <= Len(read))
    BY <2>1, <2>3
  <2> QED
    BY <2>2, <2>3
<1>4. WritePayments(stored, read, dirty) = [p \in 1 .. Len(stored) |-> row(p)]
  BY DEF WritePayments
<1> HIDE DEF row
<1> QED
  BY <1>1, <1>3, <1>4

LEMMA CommitType ==
    ASSUME TypeInv, NEW w \in Workers, Commit(w)
    PROVE  TypeInv'
<1>1. PICK r \in inflight :
        /\ subs' = [u \in Users |-> WriteSubs(subs[u], r.read.subs[u], r.dirty.subs[u])]
        /\ payments' = WritePayments(payments, r.read.payments, r.dirty.payments)
        /\ inflight' = inflight \ {r}
        /\ now' = now
  BY DEF Commit
<1>2. ASSUME NEW q \in inflight
      PROVE  /\ q.read.subs \in [Users -> Seq(Subscription)]
             /\ q.dirty.subs \in [Users -> Seq(Subscription)]
             /\ q.read.payments \in Seq(Payment)
             /\ q.dirty.payments \in Seq(Payment)
             /\ Fits(q)
  BY DEF TypeInv, TypeOK, Request, Tables
<1>3. /\ now \in Nat
      /\ subs \in [Users -> Seq(Subscription)]
      /\ payments \in Seq(Payment)
      /\ inflight \subseteq Request
  BY DEF TypeInv, TypeOK
<1>4. ASSUME NEW u \in Users
      PROVE  subs'[u] \in Seq(Subscription) /\ Len(subs[u]) <= Len(subs'[u])
  <2>1. subs'[u] = WriteSubs(subs[u], r.read.subs[u], r.dirty.subs[u])
    BY <1>1
  <2> QED
    BY <1>2, <1>3, <2>1, WriteSubsType DEF Fits
<1>5. payments' \in Seq(Payment) /\ Len(payments') = Len(payments)
  BY <1>1, <1>2, <1>3, WritePaymentsType DEF Fits
<1>6. TypeOK'
  BY <1>1, <1>3, <1>4, <1>5 DEF TypeOK
<1>7. ASSUME NEW q \in inflight' PROVE Fits(q)'
  <2>1. q \in inflight
    BY <1>1
  <2>2. ASSUME NEW u \in Users
        PROVE  /\ Len(q.read.subs[u]) <= Len(q.dirty.subs[u])
               /\ Len(q.read.subs[u]) <= Len(subs'[u])
    <3>1. Len(q.read.subs[u]) \in Nat /\ Len(subs[u]) \in Nat /\ Len(subs'[u]) \in Nat
      BY <1>2, <1>3, <1>4, <2>1, LenProperties
    <3> QED
      BY <1>2, <1>4, <2>1, <3>1 DEF Fits
  <2> QED
    BY <1>2, <1>5, <2>1, <2>2 DEF Fits
<1> QED
  BY <1>6, <1>7 DEF TypeInv

LEMMA TypeInvStep == TypeInv /\ [Next]_vars => TypeInv'
<1> SUFFICES ASSUME TypeInv, [Next]_vars PROVE TypeInv'
  OBVIOUS
<1>1. ASSUME NEW u \in Users, ManualCheckout(u) \/ GatewayCheckout(u) PROVE TypeInv'
  BY <1>1, CheckoutType DEF ManualCheckout, GatewayCheckout
<1>2. ASSUME NEW w \in Requests, NEW u \in Users, SubscriptionRoute(w, u) PROVE TypeInv'
  BY <1>2, SubscriptionRouteType DEF Workers
<1>3. ASSUME NEW w \in Requests, NEW p \in DOMAIN payments, PaymentRoute(w, p) PROVE TypeInv'
  BY <1>3, PaymentRouteType DEF Workers
<1>4. ASSUME NEW w \in Workers, ExpireSubscriptions(w) PROVE TypeInv'
  BY <1>4, ExpireType
<1>5. ASSUME NEW w \in Workers, Commit(w) PROVE TypeInv'
  BY <1>5, CommitType
<1>6. CASE Tick
  BY <1>6 DEF Tick, TypeInv, TypeOK, Fits
<1>7. CASE UNCHANGED vars
  BY <1>7 DEF vars, TypeInv, TypeOK, Fits
<1> QED
  BY <1>1, <1>2, <1>3, <1>4, <1>5, <1>6, <1>7 DEF Next

\* Every variable and every request in flight keeps its type, whatever the
\* number of requests that overlap and however their reads and commits interleave.
THEOREM TypeCorrect == Spec => []TypeOK
<1>1. Init => TypeInv
  BY DEF Init, TypeInv, TypeOK, Subscription, Payment
<1>2. TypeInv => TypeOK
  BY DEF TypeInv
<1> QED
  BY <1>1, <1>2, TypeInvStep, PTL DEF Spec

------------------------------------------------------------------------------
(***************************************************************************)
(* Requests that do not overlap.  The properties of single states are not  *)
(* inductive: they say nothing of superseded rows, which a lookup might    *)
(* return, nor of what a request in flight is about to write.  SerialInv   *)
(* adds that a superseded row's period is over, that a row's status agrees *)
(* with its period, that the table a request holds is as good as the       *)
(* stored one, and that writing it is one step of Entitlement.             *)
(***************************************************************************)

RowOK(sub) ==
    /\ sub.status # "PAST_DUE"
    /\ sub.status = "EXPIRED" => sub.periodEnd <= now
    /\ sub.status = "TRIAL" => sub.trialEnd = sub.periodEnd

RowsOK(rows) ==
    \A i \in 1 .. Len(rows) : RowOK(rows[i]) /\ (i < Len(rows) => rows[i].periodEnd <= now)

IsReceived(p) == p.status = "SUCCEEDED"

Apart(p, q) == p.end <= q.start \/ q.end <= p.start

PaymentsOK(s, pays) ==
    /\ \A p \in 1 .. Len(pays) :
          IsReceived(pays[p]) => pays[p].start <= pays[p].end
                                 /\ pays[p].end <= DeadlineOf(s[pays[p].user])
    /\ \A p, q \in 1 .. Len(pays) :
          /\ p # q
          /\ pays[p].user = pays[q].user
          /\ IsReceived(pays[p])
          /\ IsReceived(pays[q])
          => Apart(pays[p], pays[q])

Consistent(s, pays) == (\A u \in Users : RowsOK(s[u])) /\ PaymentsOK(s, pays)

\* From the deadline `old` a trial or a payment leads to the deadline `new`.
TrialOrPayment(old, new) ==
    \/ old <= now /\ new = now + TrialDays
    \/ new = Later(now, old) + PeriodDays
    \/ old = 0 /\ new = now + TrialDays + PeriodDays

OneStep(s) ==
    \/ \A u \in Users : DeadlineOf(s[u]) = Deadline(u)
    \/ \E u \in Users :
          /\ TrialOrPayment(Deadline(u), DeadlineOf(s[u]))
          /\ \A v \in Users \ {u} : DeadlineOf(s[v]) = Deadline(v)

SerialRequest(r) ==
    /\ r.read.subs = subs
    /\ \A p \in 1 .. Len(r.read.payments) :
          /\ r.read.payments[p] = payments[p]
          /\ r.dirty.payments[p].user = payments[p].user
    /\ \A p \in Len(r.read.payments) + 1 .. Len(payments) : ~ IsReceived(payments[p])
    /\ Consistent(r.dirty.subs, r.dirty.payments)
    /\ OneStep(r.dirty.subs)

SerialInv ==
    /\ TypeInv
    /\ Consistent(subs, payments)
    /\ \A r \in inflight : SerialRequest(r) /\ inflight = {r}

\* Where the rows are sound, access is the newest row's period and a lookup
\* finds the newest row.
LEMMA SoundRows ==
    ASSUME now \in Nat, NEW rows \in Seq(Subscription), RowsOK(rows)
    PROVE  /\ DeadlineOf(rows) \in Nat
           /\ \A i \in 1 .. Len(rows) : IsEntitled(rows[i]) <=> rows[i].periodEnd > now
           /\ AnyEntitled(rows) <=> DeadlineOf(rows) > now
           /\ rows # <<>> => GetSubscription(rows) = Len(rows)
<1>1. Len(rows) \in Nat /\ DOMAIN rows = 1 .. Len(rows) /\ (rows # <<>> => Len(rows) \in 1 .. Len(rows))
  BY LenProperties, EmptySeq
<1>2. \A i \in 1 .. Len(rows) : rows[i] \in Subscription
  BY ElementOfSeq
<1>3. ASSUME NEW sub \in Subscription, RowOK(sub)
      PROVE  IsEntitled(sub) <=> sub.periodEnd > now
  BY <1>3 DEF IsEntitled, GrantsAccess, RowOK, Subscription, SubscriptionStatus
<1>4. \A i \in 1 .. Len(rows) : IsEntitled(rows[i]) <=> rows[i].periodEnd > now
  BY <1>2, <1>3 DEF RowsOK
<1>5. DeadlineOf(rows) \in Nat
  BY <1>1, <1>2 DEF DeadlineOf, Subscription
<1>6. \A i \in 1 .. Len(rows) : rows[i].periodEnd \in Nat
  BY <1>2 DEF Subscription
<1>7. \A i \in 1 .. Len(rows) : i < Len(rows) => ~ IsEntitled(rows[i])
  BY <1>4, <1>6 DEF RowsOK
<1>8. AnyEntitled(rows) <=> (rows # <<>> /\ IsEntitled(rows[Len(rows)]))
  BY <1>1, <1>7 DEF AnyEntitled
<1>9. AnyEntitled(rows) <=> DeadlineOf(rows) > now
  BY <1>1, <1>4, <1>8 DEF DeadlineOf
<1>10. rows # <<>> => GetSubscription(rows) = Len(rows)
  <2> SUFFICES ASSUME rows # <<>> PROVE GetSubscription(rows) = Len(rows)
    OBVIOUS
  <2> DEFINE Wanted(i) == IF AnyEntitled(rows)
                          THEN IsEntitled(rows[i])
                               /\ \A j \in i+1 .. Len(rows) : ~ IsEntitled(rows[j])
                          ELSE i = Len(rows)
  <2>1. Len(rows) \in DOMAIN rows /\ Wanted(Len(rows))
    BY <1>1, <1>8
  <2>2. \A i \in DOMAIN rows : Wanted(i) => i = Len(rows)
    BY <1>1, <1>7
  <2>3. GetSubscription(rows) = CHOOSE i \in DOMAIN rows : Wanted(i)
    BY DEF GetSubscription
  <2> HIDE DEF Wanted
  <2> QED
    BY <2>1, <2>2, <2>3
<1> QED
  BY <1>4, <1>5, <1>9, <1>10

\* Replacing the newest row by one that is sound keeps the rows sound.
LEMMA NewestReplaced ==
    ASSUME now \in Nat, NEW rows \in Seq(Subscription), RowsOK(rows), rows # <<>>,
           NEW sub \in Subscription, RowOK(sub)
    PROVE  LET new == [rows EXCEPT ![Len(rows)] = sub]
           IN  RowsOK(new) /\ DeadlineOf(new) = sub.periodEnd
<1> DEFINE new == [rows EXCEPT ![Len(rows)] = sub]
<1>1. Len(rows) \in 1 .. Len(rows)
  BY EmptySeq
<1>2. /\ new \in Seq(Subscription)
      /\ Len(new) = Len(rows)
      /\ \A j \in 1 .. Len(rows) : new[j] = IF j = Len(rows) THEN sub ELSE rows[j]
  BY <1>1, ExceptSeq
<1> HIDE DEF new
<1>3. RowsOK(new)
  BY <1>2 DEF RowsOK
<1>4. new # <<>>
  BY <1>1, <1>2, EmptySeq
<1>5. DeadlineOf(new) = sub.periodEnd
  BY <1>1, <1>2, <1>4 DEF DeadlineOf
<1> QED
  BY <1>3, <1>5 DEF new

\* A trial is opened only when the deadline has passed.
LEMMA TrialOpened ==
    ASSUME now \in Nat, NEW rows \in Seq(Subscription), RowsOK(rows)
    PROVE  /\ RowsOK(WithTrial(rows))
           /\ \/ WithTrial(rows) = rows
              \/ /\ DeadlineOf(rows) <= now
                 /\ DeadlineOf(WithTrial(rows)) = now + TrialDays
<1>1. CASE AnyEntitled(rows)
  BY <1>1 DEF WithTrial
<1>2. CASE ~ AnyEntitled(rows)
  <2> DEFINE new == Append(rows, NewTrial)
  <2>1. TrialDays \in Nat /\ NewTrial \in Subscription /\ Len(rows) \in Nat
    BY BillingAssumption, LenProperties DEF NewTrial, Subscription, SubscriptionStatus
  <2>2. /\ Len(new) = Len(rows) + 1
        /\ \A i \in 1 .. Len(rows) : new[i] = rows[i]
        /\ new[Len(rows) + 1] = NewTrial
        /\ new # <<>>
    BY <2>1
  <2>3. RowOK(NewTrial) /\ NewTrial.periodEnd = now + TrialDays
    BY <2>1 DEF NewTrial, RowOK
  <2>4. DeadlineOf(rows) \in Nat /\ DeadlineOf(rows) <= now
    BY <1>2, SoundRows
  <2>5. \A i \in 1 .. Len(rows) : RowOK(rows[i]) /\ rows[i].periodEnd <= now
    BY <2>1, <2>4 DEF RowsOK, DeadlineOf
  <2> HIDE DEF new
  <2>6. RowsOK(new) /\ DeadlineOf(new) = now + TrialDays
    BY <2>1, <2>2, <2>3, <2>5 DEF RowsOK, DeadlineOf
  <2> QED
    BY <1>2, <2>4, <2>6 DEF WithTrial, new
<1> QED
  BY <1>1, <1>2

\* Payments stay sound when deadlines only grow.
LEMMA DeadlinesGrow ==
    ASSUME NEW s, NEW t, NEW pays \in Seq(Payment), PaymentsOK(s, pays),
           \A u \in Users : /\ DeadlineOf(s[u]) \in Nat
                            /\ DeadlineOf(t[u]) \in Nat
                            /\ DeadlineOf(s[u]) <= DeadlineOf(t[u])
    PROVE  PaymentsOK(t, pays)
<1>1. \A p \in 1 .. Len(pays) : pays[p] \in Payment
  BY ElementOfSeq
<1>2. \A p \in 1 .. Len(pays) : pays[p].user \in Users /\ pays[p].end \in Nat
  BY <1>1 DEF Payment
<1> QED
  BY <1>2 DEF PaymentsOK

\* The deadlines of sound stored tables are numbers.
LEMMA StoredDeadlines ==
    ASSUME SerialInv
    PROVE  /\ now \in Nat
           /\ payments \in Seq(Payment)
           /\ \A u \in Users : /\ subs[u] \in Seq(Subscription)
                               /\ RowsOK(subs[u])
                               /\ DeadlineOf(subs[u]) \in Nat
<1>1. now \in Nat /\ payments \in Seq(Payment) /\ subs \in [Users -> Seq(Subscription)]
  BY DEF SerialInv, TypeInv, TypeOK
<1>2. \A u \in Users : RowsOK(subs[u])
  BY DEF SerialInv, Consistent
<1> QED
  BY <1>1, <1>2, SoundRows

\* On the same day the same tables are as sound as before.
LEMMA SameDay ==
    ASSUME now' = now, subs' = subs, payments' = payments, Consistent(subs, payments)
    PROVE  Consistent(subs, payments)'
  BY DEF Consistent, RowsOK, RowOK, PaymentsOK

LEMMA SameTables ==
    ASSUME UNCHANGED <<now, subs, payments>>, NEW r, SerialRequest(r)
    PROVE  SerialRequest(r)'
<1>1. Consistent(r.dirty.subs, r.dirty.payments)'
  BY DEF SerialRequest, Consistent, RowsOK, RowOK, PaymentsOK
<1>2. OneStep(r.dirty.subs)'
  BY DEF SerialRequest, OneStep, TrialOrPayment, Deadline
<1> QED
  BY <1>1, <1>2 DEF SerialRequest

\* A request that decided on sound tables, one step of the promise away, may
\* wait for its commit.
LEMMA BeginSerial ==
    ASSUME SerialInv, Overlap = 0, NEW w \in Workers, NEW s, NEW pays \in Seq(Payment),
           Begin(w, Dirty(s, pays)), TypeInv',
           Len(pays) = Len(payments),
           \A p \in 1 .. Len(payments) : pays[p].user = payments[p].user,
           Consistent(s, pays), OneStep(s)
    PROVE  SerialInv'
<1> DEFINE r == [by |-> w, read |-> Stored, dirty |-> Dirty(s, pays)]
<1>1. inflight = {}
  BY DEF Begin
<1>2. inflight' = {r} /\ UNCHANGED <<now, subs, payments>>
  BY <1>1 DEF Begin
<1>3. r.read.subs = subs /\ r.read.payments = payments /\ r.dirty.subs = s /\ r.dirty.payments = pays
  BY DEF Stored, Dirty
<1> HIDE DEF r
<1>4. Len(payments) \in Nat
  BY LenProperties DEF SerialInv, TypeInv, TypeOK
<1>5. SerialRequest(r)
  BY <1>3, <1>4 DEF SerialRequest
<1>6. ASSUME NEW q \in inflight' PROVE SerialRequest(q)' /\ inflight' = {q}
  <2>1. q = r
    BY <1>2
  <2>2. SerialRequest(q)
    BY <1>5, <2>1
  <2> QED
    BY <1>2, <2>1, <2>2, SameTables
<1>7. Consistent(subs, payments)
  BY DEF SerialInv
<1>8. Consistent(subs, payments)'
  BY <1>2, <1>7, SameDay
<1> QED
  BY <1>6, <1>8 DEF SerialInv

\* One user's rows change, the payments do not.
LEMMA RowsBegin ==
    ASSUME SerialInv, Overlap = 0, NEW w \in Workers, NEW u \in Users,
           NEW rows \in Seq(Subscription), RowsOK(rows),
           Begin(w, WithRows(u, rows)), TypeInv',
           \/ DeadlineOf(rows) = Deadline(u)
           \/ Deadline(u) <= now /\ DeadlineOf(rows) = now + TrialDays
    PROVE  SerialInv'
<1> DEFINE s == [subs EXCEPT ![u] = rows]
<1>1. subs \in [Users -> Seq(Subscription)]
  BY DEF SerialInv, TypeInv, TypeOK
<1>2. s[u] = rows /\ \A v \in Users : v # u => s[v] = subs[v]
  BY <1>1
<1>3. TrialDays \in Nat
  BY BillingAssumption
<1>4. DeadlineOf(rows) \in Nat /\ Deadline(u) \in Nat /\ now \in Nat
  BY StoredDeadlines, SoundRows DEF Deadline
<1>5. Deadline(u) <= DeadlineOf(rows)
  BY <1>3, <1>4
<1>6. Begin(w, Dirty(s, payments))
  BY DEF WithRows
<1> HIDE DEF s
<1>7. \A v \in Users : /\ DeadlineOf(subs[v]) \in Nat
                       /\ DeadlineOf(s[v]) \in Nat
                       /\ DeadlineOf(subs[v]) <= DeadlineOf(s[v])
  BY <1>2, <1>4, <1>5, StoredDeadlines DEF Deadline
<1>8. Consistent(s, payments)
  <2>1. \A v \in Users : RowsOK(s[v])
    BY <1>2, StoredDeadlines
  <2>2. PaymentsOK(subs, payments)
    BY DEF SerialInv, Consistent
  <2>3. PaymentsOK(s, payments)
    BY <1>7, <2>2, StoredDeadlines, DeadlinesGrow
  <2> QED
    BY <2>1, <2>3 DEF Consistent
<1>9. OneStep(s)
  BY <1>2 DEF OneStep, TrialOrPayment, Deadline
<1> QED
  BY <1>6, <1>8, <1>9, StoredDeadlines, BeginSerial

LEMMA SubscriptionRouteSerial ==
    ASSUME SerialInv, Overlap = 0, NEW w \in Workers, NEW u \in Users, SubscriptionRoute(w, u)
    PROVE  SerialInv'
<1> DEFINE rows == subs[u]
<1>1. /\ rows \in Seq(Subscription)
      /\ RowsOK(rows)
      /\ now \in Nat
      /\ Deadline(u) = DeadlineOf(rows)
  BY StoredDeadlines DEF Deadline
<1>2. TypeInv'
  BY SubscriptionRouteType DEF SerialInv
<1>3. CASE BeginTrial(w, u)
  BY <1>1, <1>2, <1>3, TrialOpened, WithTrialType, RowsBegin DEF BeginTrial
<1>4. ASSUME rows # <<>>, NEW sub \in Subscription, RowOK(sub),
             sub.periodEnd = rows[Len(rows)].periodEnd,
             Begin(w, WithRows(u, [rows EXCEPT ![GetSubscription(rows)] = sub]))
      PROVE  SerialInv'
  <2>1. GetSubscription(rows) = Len(rows) /\ Len(rows) \in 1 .. Len(rows)
    BY <1>1, <1>4, SoundRows, EmptySeq
  <2> DEFINE new == [rows EXCEPT ![Len(rows)] = sub]
  <2>2. RowsOK(new) /\ DeadlineOf(new) = sub.periodEnd
    BY <1>1, <1>4, NewestReplaced
  <2>3. new \in Seq(Subscription)
    BY <1>1, <2>1, ExceptSeq
  <2>4. DeadlineOf(rows) = rows[Len(rows)].periodEnd
    BY <1>4 DEF DeadlineOf
  <2>5. Begin(w, WithRows(u, new))
    BY <1>4, <2>1
  <2> HIDE DEF new
  <2> QED
    BY <1>1, <1>2, <1>4, <2>2, <2>3, <2>4, <2>5, RowsBegin
<1>5. ASSUME rows # <<>>
      PROVE  /\ GetSubscription(rows) = Len(rows)
             /\ rows[Len(rows)] \in Subscription
             /\ RowOK(rows[Len(rows)])
             /\ IsEntitled(rows[Len(rows)]) <=> rows[Len(rows)].periodEnd > now
  <2>1. Len(rows) \in 1 .. Len(rows)
    BY <1>1, <1>5, EmptySeq
  <2> QED
    BY <1>1, <1>5, <2>1, SoundRows, ElementOfSeq DEF RowsOK
<1>6. CASE Cancel(w, u)
  <2> DEFINE sub == rows[Len(rows)]
  <2>1. Cancelled(sub) \in Subscription /\ RowOK(Cancelled(sub)) /\ Cancelled(sub).periodEnd = sub.periodEnd
    BY <1>5, <1>6 DEF Cancel, Cancelled, Subscription, SubscriptionStatus, RowOK
  <2> QED
    BY <1>4, <1>5, <1>6, <2>1 DEF Cancel
<1>7. CASE Resume(w, u)
  <2> DEFINE sub == rows[Len(rows)]
  <2>1. Resumed(sub) \in Subscription /\ RowOK(Resumed(sub)) /\ Resumed(sub).periodEnd = sub.periodEnd
    BY <1>5, <1>7 DEF Resume, Resumed, Subscription, SubscriptionStatus, RowOK
  <2> QED
    BY <1>4, <1>5, <1>7, <2>1 DEF Resume
<1> QED
  BY <1>3, <1>6, <1>7 DEF SubscriptionRoute

\* An activation sells the time after the newest row's period, so it overlaps
\* no period sold before.
LEMMA ActivateSerial ==
    ASSUME SerialInv, Overlap = 0, NEW w \in Workers, NEW p \in DOMAIN payments,
           NEW payment \in Payment, payment.user = payments[p].user,
           NEW rows \in Seq(Subscription), rows # <<>>, RowsOK(rows),
           \/ rows = subs[payment.user]
           \/ /\ Deadline(payment.user) = 0
              /\ DeadlineOf(rows) = now + TrialDays,
           Activate(w, p, rows, Len(rows), payment), TypeInv'
    PROVE  SerialInv'
<1> DEFINE u == payment.user
           sub == Activated(rows[Len(rows)])
           new == [rows EXCEPT ![Len(rows)] = sub]
           settled == Settled(payment, sub)
           s == [subs EXCEPT ![u] = new]
           pays == [payments EXCEPT ![p] = settled]
           old == DeadlineOf(rows)
           end == Later(now, old) + PeriodDays
<1>1. /\ now \in Nat
      /\ payments \in Seq(Payment)
      /\ subs \in [Users -> Seq(Subscription)]
      /\ u \in Users
      /\ PeriodDays \in Nat
      /\ TrialDays \in Nat
  BY BillingAssumption DEF SerialInv, TypeInv, TypeOK, Payment
<1>2. old \in Nat /\ Deadline(u) \in Nat /\ Deadline(u) <= old
  BY <1>1, SoundRows, StoredDeadlines DEF Deadline
<1>3. Len(rows) \in 1 .. Len(rows) /\ rows[Len(rows)] \in Subscription
  BY EmptySeq, ElementOfSeq
<1>4. old = rows[Len(rows)].periodEnd
  BY DEF DeadlineOf
<1>5. end \in Nat /\ old <= end - PeriodDays /\ end - PeriodDays \in Nat /\ old <= end
  BY <1>1, <1>2 DEF Later
<1>6. sub = [rows[Len(rows)] EXCEPT !.status = "ACTIVE", !.periodEnd = end]
  BY <1>4 DEF Activated
<1> HIDE DEF end, old
<1>7. sub \in Subscription /\ sub.periodEnd = end /\ sub.status = "ACTIVE"
  BY <1>3, <1>5, <1>6 DEF Subscription, SubscriptionStatus
<1> HIDE DEF sub
<1>8. RowOK(sub)
  BY <1>7 DEF RowOK
<1>9. RowsOK(new) /\ DeadlineOf(new) = end /\ new \in Seq(Subscription)
  BY <1>1, <1>3, <1>7, <1>8, NewestReplaced, ExceptSeq
<1> HIDE DEF new
<1>10. /\ settled \in Payment
       /\ settled.user = u
       /\ settled.start = end - PeriodDays
       /\ settled.end = end
  BY <1>5, <1>7 DEF Settled, Payment, PaymentStatus
<1> HIDE DEF settled
<1>11. /\ pays \in Seq(Payment)
       /\ Len(pays) = Len(payments)
       /\ \A q \in 1 .. Len(payments) : pays[q] = IF q = p THEN settled ELSE payments[q]
  BY <1>1, <1>10, LenProperties, ExceptSeq
<1>12. s[u] = new /\ \A v \in Users : v # u => s[v] = subs[v]
  BY <1>1
<1>13. Begin(w, Dirty(s, pays))
  BY DEF Activate, sub, new, settled
<1> HIDE DEF s, pays
<1>14. \A v \in Users : /\ DeadlineOf(subs[v]) \in Nat
                        /\ DeadlineOf(s[v]) \in Nat
                        /\ DeadlineOf(subs[v]) <= DeadlineOf(s[v])
  BY <1>2, <1>5, <1>9, <1>12, StoredDeadlines DEF Deadline
<1>15. PaymentsOK(subs, payments)
  BY DEF SerialInv, Consistent
<1>16. PaymentsOK(s, payments)
  BY <1>1, <1>14, <1>15, DeadlinesGrow
<1>17. ASSUME NEW q \in 1 .. Len(payments), q # p, payments[q].user = u, IsReceived(payments[q])
       PROVE  payments[q].end <= settled.start
  <2>1. payments[q] \in Payment
    BY <1>1, ElementOfSeq
  <2>2. payments[q].end \in Nat
    BY <2>1 DEF Payment
  <2>3. payments[q].end <= Deadline(u)
    BY <1>15, <1>17 DEF PaymentsOK, Deadline
  <2> QED
    BY <1>1, <1>2, <1>5, <1>10, <2>2, <2>3
<1>18. PaymentsOK(s, pays)
  <2>1. ASSUME NEW q \in 1 .. Len(pays), IsReceived(pays[q])
        PROVE  pays[q].start <= pays[q].end /\ pays[q].end <= DeadlineOf(s[pays[q].user])
    <3>1. CASE q = p
      BY <1>1, <1>5, <1>9, <1>10, <1>11, <1>12, <3>1
    <3>2. CASE q # p
      BY <1>11, <1>16, <2>1, <3>2 DEF PaymentsOK
    <3> QED
      BY <3>1, <3>2
  <2>2. ASSUME NEW q \in 1 .. Len(pays), NEW r \in 1 .. Len(pays), q # r,
               pays[q].user = pays[r].user, IsReceived(pays[q]), IsReceived(pays[r])
        PROVE  Apart(pays[q], pays[r])
    <3>1. CASE q = p
      BY <1>10, <1>11, <1>17, <2>2, <3>1 DEF Apart
    <3>2. CASE r = p
      BY <1>10, <1>11, <1>17, <2>2, <3>2 DEF Apart
    <3>3. CASE q # p /\ r # p
      BY <1>11, <1>16, <2>2, <3>3 DEF PaymentsOK
    <3> QED
      BY <3>1, <3>2, <3>3
  <2> QED
    BY <2>1, <2>2 DEF PaymentsOK
<1>19. Consistent(s, pays)
  BY <1>9, <1>12, <1>18, StoredDeadlines DEF Consistent
<1>20. TrialOrPayment(Deadline(u), end)
  <2>1. CASE rows = subs[u]
    BY <2>1 DEF TrialOrPayment, Deadline, end, old
  <2>2. CASE Deadline(u) = 0 /\ DeadlineOf(rows) = now + TrialDays
    BY <1>1, <2>2 DEF TrialOrPayment, end, old, Later
  <2> QED
    BY <2>1, <2>2
<1>21. OneStep(s)
  BY <1>1, <1>9, <1>12, <1>20 DEF OneStep, Deadline
<1>22. \A q \in 1 .. Len(payments) : pays[q].user = payments[q].user
  BY <1>10, <1>11
<1> QED
  BY <1>11, <1>13, <1>19, <1>21, <1>22, BeginSerial

LEMMA PaymentRouteSerial ==
    ASSUME SerialInv, Overlap = 0, NEW w \in Workers, NEW p \in DOMAIN payments, PaymentRoute(w, p)
    PROVE  SerialInv'
<1> DEFINE payment == payments[p]
           u == payment.user
           rows == OrTrial(subs[u])
<1>1. /\ payments \in Seq(Payment)
      /\ now \in Nat
  BY DEF SerialInv, TypeInv, TypeOK
<1>2. payment \in Payment
  BY <1>1, LenProperties
<1>3. u \in Users
  BY <1>2 DEF Payment
<1>4. TypeInv'
  BY PaymentRouteType DEF SerialInv
<1>5. /\ subs[u] \in Seq(Subscription)
      /\ RowsOK(subs[u])
  BY <1>3, StoredDeadlines
<1>6. /\ rows \in Seq(Subscription)
      /\ rows # <<>>
      /\ RowsOK(rows)
      /\ \/ rows = subs[u]
         \/ Deadline(u) = 0 /\ DeadlineOf(rows) = now + TrialDays
  <2>1. CASE subs[u] = <<>>
    <3>1. ~ AnyEntitled(subs[u]) /\ Deadline(u) = 0
      BY <2>1 DEF AnyEntitled, Deadline, DeadlineOf
    <3>2. rows = Append(<<>>, NewTrial) /\ rows = WithTrial(subs[u])
      BY <2>1, <3>1 DEF OrTrial, WithTrial
    <3>3. rows # subs[u]
      BY <1>1, <1>5, <2>1, WithTrialType
    <3> QED
      BY <1>1, <1>5, <3>1, <3>2, <3>3, WithTrialType, TrialOpened
  <2>2. CASE subs[u] # <<>>
    BY <1>5, <2>2 DEF OrTrial
  <2> QED
    BY <2>1, <2>2
<1>7. GetSubscription(rows) = Len(rows)
  BY <1>1, <1>6, SoundRows
<1> HIDE DEF rows
<1>8. CASE ConfirmPayment(w, p)
  <2> DEFINE new == [payment EXCEPT !.atGateway = FALSE]
  <2>1. new \in Payment /\ new.user = u
    BY <1>2 DEF Payment
  <2>2. Activate(w, p, rows, Len(rows), new)
    BY <1>7, <1>8 DEF ConfirmPayment, rows
  <2> HIDE DEF new
  <2> QED
    BY <1>4, <1>6, <2>1, <2>2, ActivateSerial
<1>9. ASSUME NEW t \in GatewayStatuses, Webhook(w, p, t)
      PROVE  SerialInv'
  <2>1. CASE t = "SUCCEEDED"
    <3>1. Activate(w, p, rows, Len(rows), payment)
      BY <1>9, <2>1 DEF Webhook, rows
    <3> QED
      BY <1>2, <1>4, <1>6, <3>1, ActivateSerial
  <2>2. CASE t # "SUCCEEDED"
    <3> DEFINE reported == [payment EXCEPT !.status = t]
               pays == [payments EXCEPT ![p] = reported]
    <3>1. reported \in Payment /\ reported.user = u /\ ~ IsReceived(reported)
      BY <1>2, <2>2, BillingAssumption DEF Payment, IsReceived
    <3>2. Begin(w, Dirty(subs, pays))
      BY <1>9, <2>2 DEF Webhook
    <3> HIDE DEF reported
    <3>3. /\ pays \in Seq(Payment)
          /\ Len(pays) = Len(payments)
          /\ \A q \in 1 .. Len(payments) : pays[q] = IF q = p THEN reported ELSE payments[q]
      BY <1>1, <3>1, LenProperties, ExceptSeq
    <3> HIDE DEF pays
    <3>4. PaymentsOK(subs, payments) /\ \A v \in Users : RowsOK(subs[v])
      BY DEF SerialInv, Consistent
    <3>5. PaymentsOK(subs, pays)
      BY <3>1, <3>3, <3>4 DEF PaymentsOK
    <3>6. Consistent(subs, pays) /\ OneStep(subs)
      BY <3>4, <3>5 DEF Consistent, OneStep, Deadline
    <3>7. \A q \in 1 .. Len(payments) : pays[q].user = payments[q].user
      BY <3>1, <3>3
    <3> QED
      BY <1>4, <3>2, <3>3, <3>6, <3>7, BeginSerial
  <2> QED
    BY <2>1, <2>2
<1> QED
  BY <1>8, <1>9 DEF PaymentRoute

LEMMA ExpireSerial ==
    ASSUME SerialInv, Overlap = 0, NEW w \in Workers, ExpireSubscriptions(w)
    PROVE  SerialInv'
<1> DEFINE retired(u) == [i \in DOMAIN subs[u] |-> Expired(subs[u][i])]
           s == [u \in Users |-> retired(u)]
<1>1. ASSUME NEW u \in Users
      PROVE  RowsOK(retired(u)) /\ DeadlineOf(retired(u)) = Deadline(u)
  <2> DEFINE rows == subs[u]
             new == retired(u)
  <2>1. rows \in Seq(Subscription) /\ now \in Nat /\ RowsOK(rows)
    BY StoredDeadlines
  <2>2. DOMAIN rows = 1 .. Len(rows) /\ Len(rows) \in Nat
    BY <2>1, LenProperties
  <2>3. ASSUME NEW i \in 1 .. Len(rows)
        PROVE  RowOK(Expired(rows[i])) /\ Expired(rows[i]).periodEnd = rows[i].periodEnd
    <3>1. /\ rows[i] \in Subscription
          /\ RowOK(rows[i])
          /\ IsEntitled(rows[i]) <=> rows[i].periodEnd > now
      BY <2>1, ElementOfSeq, SoundRows DEF RowsOK
    <3> QED
      BY <2>1, <3>1 DEF Expired, RowOK, Subscription
  <2>4. /\ Len(new) = Len(rows)
        /\ \A i \in 1 .. Len(rows) : new[i] = Expired(rows[i])
        /\ new = <<>> <=> rows = <<>>
    BY <2>1, <2>2
  <2>5. RowsOK(new)
    BY <2>1, <2>3, <2>4 DEF RowsOK
  <2>6. rows # <<>> => Len(rows) \in 1 .. Len(rows)
    BY <2>1, EmptySeq
  <2>7. DeadlineOf(new) = DeadlineOf(rows)
    BY <2>3, <2>4, <2>6 DEF DeadlineOf
  <2> QED
    BY <2>5, <2>7 DEF Deadline
<1>2. TypeInv' /\ payments \in Seq(Payment) /\ PaymentsOK(subs, payments)
  BY ExpireType DEF SerialInv, Consistent, TypeInv, TypeOK
<1> HIDE DEF retired
<1>3. \A u \in Users : RowsOK(s[u]) /\ DeadlineOf(s[u]) = Deadline(u)
  BY <1>1
<1>4. Begin(w, Dirty(s, payments))
  BY DEF ExpireSubscriptions, retired
<1> HIDE DEF s
<1>5. \A u \in Users : /\ DeadlineOf(subs[u]) \in Nat
                       /\ DeadlineOf(s[u]) \in Nat
                       /\ DeadlineOf(subs[u]) <= DeadlineOf(s[u])
  BY <1>3, StoredDeadlines DEF Deadline
<1>6. PaymentsOK(s, payments)
  BY <1>2, <1>5, DeadlinesGrow
<1>7. Consistent(s, payments) /\ OneStep(s)
  BY <1>3, <1>6 DEF Consistent, OneStep
<1> QED
  BY <1>2, <1>4, <1>7, BeginSerial

LEMMA CheckoutSerial ==
    ASSUME SerialInv, NEW u \in Users, NEW g \in BOOLEAN, Checkout(u, g)
    PROVE  SerialInv'
<1> DEFINE new == [user |-> u, status |-> "PENDING", atGateway |-> g,
                   start |-> now, end |-> now + PeriodDays]
<1>1. payments' = Append(payments, new) /\ UNCHANGED <<now, subs, inflight>>
  BY DEF Checkout
<1>2. ~ IsReceived(new)
  BY DEF IsReceived
<1> HIDE DEF new
<1>3. payments \in Seq(Payment) /\ Len(payments) \in Nat
  BY LenProperties DEF SerialInv, TypeInv, TypeOK
<1>4. /\ Len(payments') = Len(payments) + 1
      /\ \A p \in 1 .. Len(payments) : payments'[p] = payments[p]
      /\ payments'[Len(payments) + 1] = new
  BY <1>1, <1>3
<1>5. Consistent(subs, payments')
  <2>1. Consistent(subs, payments)
    BY DEF SerialInv
  <2>2. \A p \in 1 .. Len(payments') :
          IsReceived(payments'[p]) => p \in 1 .. Len(payments) /\ payments'[p] = payments[p]
    BY <1>2, <1>3, <1>4
  <2> QED
    BY <2>1, <2>2 DEF Consistent, PaymentsOK
<1>6. Consistent(subs, payments)'
  BY <1>1, <1>5 DEF Consistent, RowsOK, RowOK, PaymentsOK
<1>7. ASSUME NEW r \in inflight PROVE SerialRequest(r)'
  <2>1. SerialRequest(r) /\ Fits(r)
    BY DEF SerialInv, TypeInv
  <2>2. Len(r.read.payments) \in Nat /\ Len(r.read.payments) <= Len(payments)
    BY <2>1, LenProperties DEF Fits, SerialInv, TypeInv, TypeOK, Request, Tables
  <2>3. \A p \in 1 .. Len(r.read.payments) : p \in 1 .. Len(payments)
    BY <1>3, <2>2
  <2>4. \A p \in Len(r.read.payments) + 1 .. Len(payments') : ~ IsReceived(payments'[p])
    BY <1>2, <1>3, <1>4, <2>1, <2>2 DEF SerialRequest
  <2>5. Consistent(r.dirty.subs, r.dirty.payments)'
    BY <1>1, <2>1 DEF SerialRequest, Consistent, RowsOK, RowOK, PaymentsOK
  <2>6. OneStep(r.dirty.subs)'
    BY <1>1, <2>1 DEF SerialRequest, OneStep, TrialOrPayment, Deadline
  <2> QED
    BY <1>1, <1>4, <2>1, <2>3, <2>4, <2>5, <2>6 DEF SerialRequest
<1>8. TypeInv'
  BY CheckoutType DEF SerialInv
<1> QED
  BY <1>1, <1>6, <1>7, <1>8 DEF SerialInv

\* When nothing was written since the read, a commit stores what the request holds.
LEMMA SubsStored ==
    ASSUME NEW read \in Seq(Subscription), NEW dirty \in Seq(Subscription), Len(read) <= Len(dirty)
    PROVE  WriteSubs(read, read, dirty) = dirty
<1> DEFINE row(i) == IF i <= Len(read) THEN WriteSub(read[i], read[i], dirty[i])
                     ELSE IF i <= Len(read) THEN read[i]
                     ELSE dirty[i - Len(read) + Len(read)]
<1>1. Len(read) \in Nat /\ Len(dirty) \in Nat /\ Len(read) + Len(dirty) - Len(read) = Len(dirty)
  BY LenProperties
<1>2. ASSUME NEW a \in Subscription, NEW b \in Subscription PROVE WriteSub(a, a, b) = b
  BY DEF WriteSub, Column, Subscription
<1>3. ASSUME NEW i \in 1 .. Len(dirty) PROVE row(i) = dirty[i]
  <2>1. CASE i <= Len(read)
    <3>1. i \in 1 .. Len(read)
      BY <1>1, <2>1
    <3>2. read[i] \in Subscription /\ dirty[i] \in Subscription
      BY <3>1, ElementOfSeq
    <3> QED
      BY <1>2, <2>1, <3>2
  <2>2. CASE ~ (i <= Len(read))
    BY <1>1, <2>2
  <2> QED
    BY <2>1, <2>2
<1>4. WriteSubs(read, read, dirty) = [i \in 1 .. Len(dirty) |-> row(i)]
  BY <1>1 DEF WriteSubs
<1> HIDE DEF row
<1>5. WriteSubs(read, read, dirty) = [i \in 1 .. Len(dirty) |-> dirty[i]]
  BY <1>3, <1>4
<1>6. dirty = [i \in 1 .. Len(dirty) |-> dirty[i]]
  BY LenProperties
<1> QED
  BY <1>5, <1>6

\* The effect of a commit when requests do not overlap.
LEMMA CommitEffect ==
    ASSUME SerialInv, NEW w \in Workers, Commit(w)
    PROVE  \E r \in inflight :
              /\ subs' = r.dirty.subs
              /\ now' = now
              /\ inflight' = {}
              /\ payments' \in Seq(Payment)
              /\ Len(payments') = Len(payments)
              /\ Len(r.dirty.payments) <= Len(payments)
              /\ \A p \in 1 .. Len(r.dirty.payments) : payments'[p] = r.dirty.payments[p]
              /\ \A p \in Len(r.dirty.payments) + 1 .. Len(payments) : ~ IsReceived(payments'[p])
<1>1. PICK r \in inflight :
        /\ subs' = [u \in Users |-> WriteSubs(subs[u], r.read.subs[u], r.dirty.subs[u])]
        /\ payments' = WritePayments(payments, r.read.payments, r.dirty.payments)
        /\ inflight' = inflight \ {r}
        /\ now' = now
  BY DEF Commit
<1>2. inflight = {r} /\ SerialRequest(r) /\ Fits(r)
  BY DEF SerialInv, TypeInv
<1>3. /\ r.dirty.subs \in [Users -> Seq(Subscription)]
      /\ r.read.payments \in Seq(Payment)
      /\ r.dirty.payments \in Seq(Payment)
      /\ payments \in Seq(Payment)
      /\ subs \in [Users -> Seq(Subscription)]
  BY DEF SerialInv, TypeInv, TypeOK, Request, Tables
<1>4. subs' = r.dirty.subs
  <2>1. r.read.subs = subs
    BY <1>2 DEF SerialRequest
  <2>2. ASSUME NEW u \in Users
        PROVE  WriteSubs(subs[u], r.read.subs[u], r.dirty.subs[u]) = r.dirty.subs[u]
    BY <1>2, <1>3, <2>1, SubsStored DEF Fits
  <2>3. subs' = [u \in Users |-> r.dirty.subs[u]]
    BY <1>1, <2>2
  <2> QED
    BY <1>3, <2>3
<1> DEFINE n == Len(r.dirty.payments)
<1>5. n = Len(r.read.payments) /\ n <= Len(payments) /\ n \in Nat /\ Len(payments) \in Nat
  BY <1>2, <1>3, LenProperties DEF Fits
<1>6. payments' \in Seq(Payment) /\ Len(payments') = Len(payments)
  BY <1>1, <1>3, <1>5, WritePaymentsType
<1>7. \A p \in 1 .. Len(payments) :
        payments'[p] = IF p <= n THEN WritePayment(payments[p], r.read.payments[p], r.dirty.payments[p])
                       ELSE payments[p]
  BY <1>1, <1>5 DEF WritePayments
<1>8. ASSUME NEW a \in Payment, NEW b \in Payment, a.user = b.user
      PROVE  WritePayment(a, a, b) = b
  BY <1>8 DEF WritePayment, Column, Payment
<1>9. ASSUME NEW p \in 1 .. n PROVE payments'[p] = r.dirty.payments[p]
  <2>1. p \in 1 .. Len(payments) /\ p <= n
    BY <1>5
  <2>2. payments[p] \in Payment /\ r.dirty.payments[p] \in Payment
    BY <1>3, <2>1, ElementOfSeq
  <2>3. r.read.payments[p] = payments[p] /\ r.dirty.payments[p].user = payments[p].user
    BY <1>2, <1>5 DEF SerialRequest
  <2> QED
    BY <1>7, <1>8, <2>1, <2>2, <2>3
<1>10. ASSUME NEW p \in n + 1 .. Len(payments) PROVE ~ IsReceived(payments'[p])
  <2>1. p \in 1 .. Len(payments) /\ ~ (p <= n)
    BY <1>5
  <2>2. ~ IsReceived(payments[p])
    BY <1>2, <1>5 DEF SerialRequest
  <2> QED
    BY <1>7, <2>1, <2>2
<1> QED
  BY <1>1, <1>2, <1>4, <1>5, <1>6, <1>9, <1>10

LEMMA CommitSerial ==
    ASSUME SerialInv, NEW w \in Workers, Commit(w)
    PROVE  SerialInv'
<1>1. PICK r \in inflight :
        /\ subs' = r.dirty.subs
        /\ now' = now
        /\ inflight' = {}
        /\ payments' \in Seq(Payment)
        /\ Len(payments') = Len(payments)
        /\ Len(r.dirty.payments) <= Len(payments)
        /\ \A p \in 1 .. Len(r.dirty.payments) : payments'[p] = r.dirty.payments[p]
        /\ \A p \in Len(r.dirty.payments) + 1 .. Len(payments) : ~ IsReceived(payments'[p])
  BY CommitEffect
<1> DEFINE s == r.dirty.subs
           pays == r.dirty.payments
<1>2. Consistent(s, pays)
  BY DEF SerialInv, SerialRequest
<1>3. Len(pays) \in Nat /\ Len(payments') \in Nat
  BY <1>1, LenProperties DEF SerialInv, TypeInv, TypeOK, Request, Tables
<1>4. ASSUME NEW p \in 1 .. Len(payments'), IsReceived(payments'[p])
      PROVE  p \in 1 .. Len(pays) /\ payments'[p] = pays[p]
  <2>1. CASE p <= Len(pays)
    BY <1>1, <1>3, <2>1
  <2>2. CASE ~ (p <= Len(pays))
    BY <1>1, <1>3, <1>4, <2>2
  <2> QED
    BY <2>1, <2>2
<1>5. Consistent(s, payments')
  BY <1>2, <1>4 DEF Consistent, PaymentsOK
<1>6. Consistent(subs, payments)'
  BY <1>1, <1>5 DEF Consistent, RowsOK, RowOK, PaymentsOK
<1>7. TypeInv'
  BY CommitType DEF SerialInv
<1> QED
  BY <1>1, <1>6, <1>7 DEF SerialInv

\* A day passes only between requests, and what is over stays over.
LEMMA TickSerial ==
    ASSUME SerialInv, Tick
    PROVE  SerialInv'
<1>1. /\ now \in Nat
      /\ now' = now + 1
      /\ UNCHANGED <<subs, payments, inflight>>
      /\ inflight = {}
      /\ subs \in [Users -> Seq(Subscription)]
  BY DEF Tick, SerialInv, TypeInv, TypeOK
<1>2. ASSUME NEW u \in Users PROVE RowsOK(subs[u])'
  <2>1. \A i \in 1 .. Len(subs[u]) : subs[u][i] \in Subscription
    BY <1>1, ElementOfSeq
  <2>2. \A i \in 1 .. Len(subs[u]) : subs[u][i].periodEnd \in Nat
    BY <2>1 DEF Subscription
  <2>3. RowsOK(subs[u])
    BY DEF SerialInv, Consistent
  <2> QED
    BY <1>1, <2>2, <2>3 DEF RowsOK, RowOK
<1>3. Consistent(subs, payments)'
  BY <1>1, <1>2 DEF SerialInv, Consistent, PaymentsOK
<1>4. TypeInv'
  BY <1>1, TypeInvStep DEF Next, SerialInv
<1> QED
  BY <1>1, <1>3, <1>4 DEF SerialInv

LEMMA SerialInvStep ==
    ASSUME Overlap = 0, SerialInv, [Next]_vars
    PROVE  SerialInv'
<1>1. ASSUME NEW u \in Users, ManualCheckout(u) \/ GatewayCheckout(u) PROVE SerialInv'
  BY <1>1, CheckoutSerial DEF ManualCheckout, GatewayCheckout
<1>2. ASSUME NEW w \in Requests, NEW u \in Users, SubscriptionRoute(w, u) PROVE SerialInv'
  BY <1>2, SubscriptionRouteSerial DEF Workers
<1>3. ASSUME NEW w \in Requests, NEW p \in DOMAIN payments, PaymentRoute(w, p) PROVE SerialInv'
  BY <1>3, PaymentRouteSerial DEF Workers
<1>4. ASSUME NEW w \in Workers, ExpireSubscriptions(w) PROVE SerialInv'
  BY <1>4, ExpireSerial
<1>5. ASSUME NEW w \in Workers, Commit(w) PROVE SerialInv'
  BY <1>5, CommitSerial
<1>6. CASE Tick
  BY <1>6, TickSerial
<1>7. CASE UNCHANGED vars
  <2>1. UNCHANGED <<now, subs, payments>> /\ inflight' = inflight
    BY <1>7 DEF vars
  <2>2. TypeInv'
    BY TypeInvStep DEF SerialInv
  <2>3. Consistent(subs, payments)'
    BY <2>1, SameDay DEF SerialInv
  <2> QED
    BY <2>1, <2>2, <2>3, SameTables DEF SerialInv
<1> QED
  BY <1>1, <1>2, <1>3, <1>4, <1>5, <1>6, <1>7 DEF Next

LEMMA SerialInvInit == Init => SerialInv
<1> SUFFICES ASSUME Init PROVE SerialInv
  OBVIOUS
<1>1. TypeInv
  BY DEF Init, TypeInv, TypeOK, Subscription, Payment
<1>2. Consistent(subs, payments)
  BY DEF Init, Consistent, RowsOK, PaymentsOK
<1> QED
  BY <1>1, <1>2 DEF Init, SerialInv

LEMMA SerialInvImplies ==
    ASSUME SerialInv
    PROVE  AccessIsDeadline /\ PaidTimeHonoured /\ PaidPeriodsDisjoint
<1>1. /\ payments \in Seq(Payment)
      /\ PaymentsOK(subs, payments)
      /\ DOMAIN payments = 1 .. Len(payments)
      /\ now \in Nat
  BY LenProperties DEF SerialInv, TypeInv, TypeOK, Consistent
<1>2. AccessIsDeadline
  BY StoredDeadlines, SoundRows DEF AccessIsDeadline, HasAccess, Deadline
<1>3. ASSUME NEW p \in DOMAIN payments, payments[p].status = "SUCCEEDED", payments[p].end > now
      PROVE  HasAccess(payments[p].user)
  <2>1. payments[p] \in Payment
    BY <1>1, ElementOfSeq
  <2>2. payments[p].user \in Users /\ payments[p].end \in Nat
    BY <2>1 DEF Payment
  <2>3. payments[p].end <= Deadline(payments[p].user)
    BY <1>1, <1>3 DEF PaymentsOK, IsReceived, Deadline
  <2>4. Deadline(payments[p].user) \in Nat
    BY <2>2, StoredDeadlines DEF Deadline
  <2> QED
    BY <1>1, <1>2, <1>3, <2>2, <2>3, <2>4 DEF AccessIsDeadline
<1>4. PaidPeriodsDisjoint
  BY <1>1 DEF PaidPeriodsDisjoint, PaymentsOK, IsReceived, Apart
<1> QED
  BY <1>2, <1>3, <1>4 DEF PaidTimeHonoured

\* When requests do not overlap: access is exactly the newest row's period,
\* nobody is locked out of time paid for, and no day is sold twice.
THEOREM SerialCorrect ==
    ASSUME Overlap = 0
    PROVE  Spec => [](AccessIsDeadline /\ PaidTimeHonoured /\ PaidPeriodsDisjoint)
<1>1. SerialInv /\ [Next]_vars => SerialInv'
  BY SerialInvStep
<1>2. SerialInv => AccessIsDeadline /\ PaidTimeHonoured /\ PaidPeriodsDisjoint
  BY SerialInvImplies
<1> QED
  BY <1>1, <1>2, SerialInvInit, PTL DEF Spec

\* activate_subscription, when requests do not overlap: a payment received is
\* never withheld from its customer.
COROLLARY PaidTimeKept ==
    ASSUME Overlap = 0
    PROVE  Spec => []PaidTimeHonoured
<1> QED  BY SerialCorrect, PTL

\* activate_subscription, when requests do not overlap: no two payments buy the
\* same day.
COROLLARY DaysSoldOnce ==
    ASSUME Overlap = 0
    PROVE  Spec => []PaidPeriodsDisjoint
<1> QED  BY SerialCorrect, PTL


------------------------------------------------------------------------------
(* A confirmation outlives callbacks.  What a request in flight is about to *)
(* write keeps every payment that it read as confirmed by hand.             *)

Confirmed(payment) == payment.status = "SUCCEEDED" /\ ~ payment.atGateway

KeepsConfirmed(r) ==
    \A p \in 1 .. Len(r.read.payments) :
        Confirmed(r.read.payments[p]) => r.dirty.payments[p].status = "SUCCEEDED"

ConfirmInv == SerialInv /\ \A r \in inflight : KeepsConfirmed(r)

LEMMA BeginConfirm ==
    ASSUME ConfirmInv, NEW w, NEW s, NEW pays, Begin(w, Dirty(s, pays)),
           \A p \in 1 .. Len(payments) :
               Confirmed(payments[p]) => pays[p].status = "SUCCEEDED"
    PROVE  \A r \in inflight' : KeepsConfirmed(r)
<1> DEFINE new == [by |-> w, read |-> Stored, dirty |-> Dirty(s, pays)]
<1>1. inflight' = inflight \cup {new}  BY DEF Begin
<1>2. new.read.payments = payments /\ new.dirty.payments = pays  BY DEF Stored, Dirty
<1> HIDE DEF new
<1>3. KeepsConfirmed(new)  BY <1>2 DEF KeepsConfirmed
<1> QED  BY <1>1, <1>3 DEF ConfirmInv

\* A payment that was not confirmed by hand may be written over.
LEMMA OneReplaced ==
    ASSUME payments \in Seq(Payment), NEW p \in DOMAIN payments, NEW new,
           Confirmed(payments[p]) => new.status = "SUCCEEDED"
    PROVE  \A q \in 1 .. Len(payments) : Confirmed(payments[q]) =>
               [payments EXCEPT ![p] = new][q].status = "SUCCEEDED"
<1> TAKE q \in 1 .. Len(payments)
<1>1. [payments EXCEPT ![p] = new][q] = IF q = p THEN new ELSE payments[q]  OBVIOUS
<1> QED  BY <1>1 DEF Confirmed

LEMMA PaymentRouteConfirm ==
    ASSUME ConfirmInv, NEW w, NEW p \in DOMAIN payments, PaymentRoute(w, p)
    PROVE  \A r \in inflight' : KeepsConfirmed(r)
<1>1. payments \in Seq(Payment)  BY DEF ConfirmInv, SerialInv, TypeInv, TypeOK
<1>2. ASSUME NEW rows, NEW i, NEW payment, Activate(w, p, rows, i, payment),
             "status" \in DOMAIN payment
      PROVE  \A r \in inflight' : KeepsConfirmed(r)
  <2> DEFINE new == Settled(payment, Activated(rows[i]))
             s == [subs EXCEPT ![payment.user] = [rows EXCEPT ![i] = Activated(rows[i])]]
  <2>1. new.status = "SUCCEEDED"  BY <1>2 DEF Settled
  <2>2. Begin(w, Dirty(s, [payments EXCEPT ![p] = new]))  BY <1>2 DEF Activate
  <2> HIDE DEF new, s
  <2> QED  BY <1>1, <2>1, <2>2, OneReplaced, BeginConfirm
<1>3. payments[p] \in Payment  BY <1>1
<1>4. CASE ConfirmPayment(w, p)
  <2>1. "status" \in DOMAIN [payments[p] EXCEPT !.atGateway = FALSE]  BY <1>3 DEF Payment
  <2> QED  BY <1>2, <1>4, <2>1 DEF ConfirmPayment
<1>5. ASSUME NEW s \in GatewayStatuses, Webhook(w, p, s)
      PROVE  \A r \in inflight' : KeepsConfirmed(r)
  <2>1. CASE s = "SUCCEEDED"
    <3>1. "status" \in DOMAIN payments[p]  BY <1>3 DEF Payment
    <3> QED  BY <1>2, <1>5, <2>1, <3>1 DEF Webhook
  <2>2. CASE s # "SUCCEEDED"
    <3> DEFINE new == [payments[p] EXCEPT !.status = s]
    <3>1. Begin(w, Dirty(subs, [payments EXCEPT ![p] = new])) /\ payments[p].atGateway
      BY <1>5, <2>2 DEF Webhook
    <3>2. ~ Confirmed(payments[p])  BY <3>1 DEF Confirmed
    <3> HIDE DEF new
    <3> QED  BY <1>1, <3>1, <3>2, OneReplaced, BeginConfirm
  <2> QED  BY <2>1, <2>2
<1> QED  BY <1>4, <1>5 DEF PaymentRoute

LEMMA ConfirmInvStep == Overlap = 0 /\ ConfirmInv /\ [Next]_vars => ConfirmInv'
<1> SUFFICES ASSUME Overlap = 0, ConfirmInv, [Next]_vars PROVE ConfirmInv'  OBVIOUS
<1>1. SerialInv'  BY SerialInvStep DEF ConfirmInv
<1> SUFFICES \A r \in inflight' : KeepsConfirmed(r)
  BY <1>1 DEF ConfirmInv, KeepsConfirmed, Confirmed
<1>2. CASE inflight' \subseteq inflight  BY <1>2 DEF ConfirmInv
<1>3. ASSUME NEW w, NEW s, Begin(w, Dirty(s, payments))
      PROVE  \A r \in inflight' : KeepsConfirmed(r)
  BY <1>3, BeginConfirm DEF Confirmed
<1>4. ASSUME NEW w, NEW u, SubscriptionRoute(w, u)
      PROVE  \E s : Begin(w, Dirty(s, payments))
  BY <1>4 DEF SubscriptionRoute, BeginTrial, Cancel, Resume, WithRows
<1>5. ASSUME NEW w, ExpireSubscriptions(w) PROVE \E s : Begin(w, Dirty(s, payments))
  BY <1>5 DEF ExpireSubscriptions
<1>6. ASSUME NEW w, Commit(w) PROVE inflight' \subseteq inflight  BY <1>6 DEF Commit
<1>7. ASSUME NEW u, ManualCheckout(u) \/ GatewayCheckout(u) PROVE inflight' \subseteq inflight
  BY <1>7 DEF ManualCheckout, GatewayCheckout, Checkout
<1>8. Tick \/ UNCHANGED vars => inflight' \subseteq inflight  BY DEF Tick, vars
<1> QED
  BY <1>2, <1>3, <1>4, <1>5, <1>6, <1>7, <1>8, PaymentRouteConfirm DEF Next

\* confirm_payment: when requests do not overlap, no late callback undoes what
\* an administrator confirmed.
THEOREM ConfirmationsKept ==
    ASSUME Overlap = 0
    PROVE  Spec => ConfirmedStays
<1> DEFINE Kept == \A p \in DOMAIN payments :
                       payments[p].status = "SUCCEEDED" /\ ~ payments[p].atGateway
                           => payments'[p].status = "SUCCEEDED"
<1>1. ConfirmInv /\ [Next]_vars => [Kept]_vars
  <2> SUFFICES ASSUME ConfirmInv, [Next]_vars, NEW p \in DOMAIN payments, Confirmed(payments[p])
               PROVE  payments'[p].status = "SUCCEEDED"
    BY DEF Confirmed
  <2>1. payments \in Seq(Payment)  BY DEF ConfirmInv, SerialInv, TypeInv, TypeOK
  <2>2. p \in 1 .. Len(payments) /\ payments[p].status = "SUCCEEDED"
    BY <2>1 DEF Confirmed
  <2>3. CASE UNCHANGED payments  BY <2>2, <2>3
  <2>4. ASSUME NEW u, NEW g, Checkout(u, g) PROVE payments'[p].status = "SUCCEEDED"
    BY <2>1, <2>2, <2>4 DEF Checkout
  <2>5. ASSUME NEW w, Commit(w) PROVE payments'[p].status = "SUCCEEDED"
    <3>1. PICK r \in inflight : payments' = WritePayments(payments, r.read.payments,
                                                          r.dirty.payments)
      BY <2>5 DEF Commit
    <3>2. payments'[p] = IF p <= Len(r.read.payments)
                         THEN WritePayment(payments[p], r.read.payments[p], r.dirty.payments[p])
                         ELSE payments[p]
      BY <2>2, <3>1 DEF WritePayments
    <3>3. CASE p <= Len(r.read.payments)
      <4>1. Len(r.read.payments) \in Nat
        BY LenProperties DEF ConfirmInv, SerialInv, TypeInv, TypeOK, Request, Tables
      <4>2. p \in 1 .. Len(r.read.payments)  BY <2>2, <3>3, <4>1
      <4>3. r.read.payments[p] = payments[p]  BY <4>2 DEF ConfirmInv, SerialInv, SerialRequest
      <4>4. r.dirty.payments[p].status = "SUCCEEDED"
        BY <4>2, <4>3 DEF ConfirmInv, KeepsConfirmed
      <4> QED  BY <2>2, <3>2, <3>3, <4>3, <4>4 DEF WritePayment, Column
    <3> QED  BY <2>2, <3>2, <3>3
  <2>6. \/ UNCHANGED payments
        \/ \E u, g : Checkout(u, g)
        \/ \E w : Commit(w)
    <3>1. ASSUME NEW w, NEW dirty, Begin(w, dirty) PROVE UNCHANGED payments  BY <3>1 DEF Begin
    <3>2. ASSUME NEW w, NEW u, SubscriptionRoute(w, u) PROVE UNCHANGED payments
      BY <3>1, <3>2 DEF SubscriptionRoute, BeginTrial, Cancel, Resume
    <3>3. ASSUME NEW w, NEW q, PaymentRoute(w, q) PROVE UNCHANGED payments
      BY <3>1, <3>3 DEF PaymentRoute, ConfirmPayment, Webhook, Activate
    <3>4. ASSUME NEW w, ExpireSubscriptions(w) PROVE UNCHANGED payments
      BY <3>1, <3>4 DEF ExpireSubscriptions
    <3>5. ASSUME NEW u, ManualCheckout(u) \/ GatewayCheckout(u) PROVE \E v, g : Checkout(v, g)
      BY <3>5 DEF ManualCheckout, GatewayCheckout
    <3> QED  BY <3>2, <3>3, <3>4, <3>5 DEF Next, Tick, vars
  <2> QED  BY <2>3, <2>4, <2>5, <2>6
<1>2. Init => ConfirmInv  BY SerialInvInit DEF Init, ConfirmInv
<1>3. ConfirmInv /\ [Next]_vars => ConfirmInv'  BY ConfirmInvStep
<1>4. Spec => [][Kept]_vars  BY <1>1, <1>2, <1>3, PTL DEF Spec
<1> QED  BY <1>4 DEF ConfirmedStays, Kept

------------------------------------------------------------------------------
(* The tables implement one deadline per user. *)

LEMMA PromiseInit == Init => Promise!Init
  BY DEF Init, Promise!Init, Deadline, DeadlineOf

\* A commit is a trial, a payment, or nothing that a customer can tell.
LEMMA PromiseCommit ==
    ASSUME SerialInv, NEW w \in Workers, Commit(w)
    PROVE  [Promise!Next]_(Promise!vars)
<1> DEFINE until == [u \in Users |-> Deadline(u)]
<1>1. PICK r \in inflight : subs' = r.dirty.subs /\ now' = now
  BY CommitEffect
<1>2. OneStep(r.dirty.subs)
  BY DEF SerialInv, SerialRequest
<1>3. until' = [u \in Users |-> DeadlineOf(r.dirty.subs[u])]
  BY <1>1 DEF Deadline
<1>4. CASE \A u \in Users : DeadlineOf(r.dirty.subs[u]) = Deadline(u)
  <2>1. until' = until
    BY <1>3, <1>4
  <2> QED
    BY <1>1, <2>1 DEF Promise!vars
<1>5. ASSUME NEW u \in Users,
             TrialOrPayment(Deadline(u), DeadlineOf(r.dirty.subs[u])),
             \A v \in Users \ {u} : DeadlineOf(r.dirty.subs[v]) = Deadline(v)
      PROVE  Promise!Next
  <2> DEFINE new == DeadlineOf(r.dirty.subs[u])
  <2>1. until' = [until EXCEPT ![u] = new]
    BY <1>3, <1>5
  <2>2. until[u] = Deadline(u)
    OBVIOUS
  <2>3. Deadline(u) \in Nat /\ now \in Nat
    BY StoredDeadlines DEF Deadline
  <2>4. CASE Deadline(u) <= now /\ new = now + TrialDays
    <3>1. Promise!OpenTrial(u)
      BY <1>1, <2>1, <2>2, <2>3, <2>4 DEF Promise!OpenTrial, Promise!HasAccess
    <3> QED
      BY <3>1 DEF Promise!Next
  <2>5. CASE new = Later(now, Deadline(u)) + PeriodDays
    <3>1. Promise!Later(now, until[u]) = Later(now, Deadline(u))
      BY <2>2 DEF Promise!Later, Later
    <3>2. Promise!Pay(u)
      BY <1>1, <2>1, <2>5, <3>1 DEF Promise!Pay
    <3> QED
      BY <3>2 DEF Promise!Next
  <2>6. CASE Deadline(u) = 0 /\ new = now + TrialDays + PeriodDays
    <3>1. Promise!Pay(u)
      BY <1>1, <2>1, <2>2, <2>6 DEF Promise!Pay
    <3> QED
      BY <3>1 DEF Promise!Next
  <2> HIDE DEF new, until
  <2> QED
    BY <1>5, <2>4, <2>5, <2>6 DEF TrialOrPayment, new
<1> QED
  BY <1>2, <1>4, <1>5 DEF OneStep

LEMMA PromiseStep ==
    ASSUME Overlap = 0, SerialInv, [Next]_vars
    PROVE  [Promise!Next]_(Promise!vars)
<1>1. now' = now /\ subs' = subs => UNCHANGED Promise!vars
  BY DEF Promise!vars, Deadline
<1>2. ASSUME NEW w \in Workers, NEW d, Begin(w, d) PROVE UNCHANGED Promise!vars
  BY <1>1, <1>2 DEF Begin
<1>3. ASSUME NEW u \in Users, ManualCheckout(u) \/ GatewayCheckout(u)
      PROVE  UNCHANGED Promise!vars
  BY <1>1, <1>3 DEF ManualCheckout, GatewayCheckout, Checkout
<1>4. ASSUME NEW w \in Requests, NEW u \in Users, SubscriptionRoute(w, u)
      PROVE  UNCHANGED Promise!vars
  BY <1>2, <1>4 DEF SubscriptionRoute, BeginTrial, Cancel, Resume, Workers
<1>5. ASSUME NEW w \in Requests, NEW p \in DOMAIN payments, PaymentRoute(w, p)
      PROVE  UNCHANGED Promise!vars
  BY <1>2, <1>5 DEF PaymentRoute, ConfirmPayment, Webhook, Activate, Workers
<1>6. ASSUME NEW w \in Workers, ExpireSubscriptions(w)
      PROVE  UNCHANGED Promise!vars
  BY <1>2, <1>6 DEF ExpireSubscriptions
<1>7. CASE Tick
  BY <1>7 DEF Tick, Promise!Next, Promise!NextDay, Deadline
<1>8. CASE UNCHANGED vars
  BY <1>1, <1>8 DEF vars
<1> QED
  BY <1>3, <1>4, <1>5, <1>6, <1>7, <1>8, PromiseCommit DEF Next

\* Trials, cancellations, resumptions, confirmations, callbacks and the expiry
\* job keep, request by request, what Entitlement promises a customer.
THEOREM BillingKeepsPromise ==
    ASSUME Overlap = 0
    PROVE  Spec => KeepsPromise
<1>1. SerialInv /\ [Next]_vars => SerialInv'
  BY SerialInvStep
<1>2. SerialInv /\ [Next]_vars => [Promise!Next]_(Promise!vars)
  BY PromiseStep
<1>3. Spec => []SerialInv
  BY <1>1, SerialInvInit, PTL DEF Spec
<1> QED
  BY <1>2, <1>3, PromiseInit, PTL DEF Spec, KeepsPromise, Promise!Spec

------------------------------------------------------------------------------
(* However many requests overlap, and whatever updates are lost: nobody    *)
(* gains time that was neither a trial nor paid for.                       *)


(***************************************************************************)
(* Without callbacks a payment once received stays so.  A request in       *)
(* flight has paid for what it is about to write: the payment it settles   *)
(* is received no later than the period is stored.                         *)
(***************************************************************************)
PaidIn(pays, u) == {p \in 1 .. Len(pays) : pays[p].user = u /\ pays[p].status = "SUCCEEDED"}

Within(rows, paid) ==
    \A i \in 1 .. Len(rows) :
        rows[i].periodEnd <= now + TrialDays + PeriodDays * Cardinality(paid)

Settles(r) ==
    \A p \in 1 .. Len(r.read.payments) :
        /\ r.dirty.payments[p].user = payments[p].user
        /\ r.dirty.payments[p].status \in {r.read.payments[p].status, "SUCCEEDED"}
        /\ r.read.payments[p].status = "SUCCEEDED" => payments[p].status = "SUCCEEDED"

Earned(r) == \A u \in Users : Within(r.dirty.subs[u], PaidIn(r.dirty.payments, u))

FreeInv ==
    /\ TypeInv
    /\ \A u \in Users : Within(subs[u], PaidIn(payments, u))
    /\ \A r \in inflight : Earned(r) /\ Settles(r)

LEMMA PaidFinite ==
    ASSUME NEW pays \in Seq(Payment), NEW u
    PROVE  IsFiniteSet(PaidIn(pays, u)) /\ Cardinality(PaidIn(pays, u)) \in Nat
<1>1. Len(pays) \in Nat  BY LenProperties
<1>2. IsFiniteSet(1 .. Len(pays))  BY <1>1, FS_Interval
<1>3. PaidIn(pays, u) \subseteq 1 .. Len(pays)  BY DEF PaidIn
<1> QED  BY <1>2, <1>3, FS_Subset, FS_CardinalityType

LEMMA Durations == TrialDays \in Nat /\ PeriodDays \in Nat
  BY BillingAssumption

LEMMA PeriodsGrow ==
    ASSUME NEW a \in Nat, NEW b \in Nat, a <= b
    PROVE  /\ PeriodDays * a \in Nat /\ PeriodDays * b \in Nat
           /\ PeriodDays * a <= PeriodDays * b
<1>1. PICK c \in Nat : b = a + c
  <2>1. b - a \in Nat /\ b = a + (b - a)  OBVIOUS
  <2> QED  BY <2>1
<1>2. PeriodDays * b = PeriodDays * a + PeriodDays * c  BY <1>1, Durations
<1>3. PeriodDays * a \in Nat /\ PeriodDays * c \in Nat  BY <1>1, Durations
<1> QED  BY <1>2, <1>3

\* More payments allow no less.
LEMMA WithinMore ==
    ASSUME TypeOK, NEW rows \in Seq(Subscription), NEW S, NEW T, S \subseteq T, IsFiniteSet(T),
           Within(rows, S)
    PROVE  Within(rows, T)
<1>1. Cardinality(S) \in Nat /\ Cardinality(T) \in Nat /\ Cardinality(S) <= Cardinality(T)
  BY FS_Subset, FS_CardinalityType
<1> DEFINE a == PeriodDays * Cardinality(S)
           b == PeriodDays * Cardinality(T)
<1>2. a \in Nat /\ b \in Nat /\ a <= b  BY <1>1, PeriodsGrow
<1>3. ASSUME NEW i \in 1 .. Len(rows) PROVE rows[i].periodEnd \in Nat
  <2>1. rows[i] \in Subscription  BY ElementOfSeq
  <2> QED  BY <2>1 DEF Subscription
<1>4. \A i \in 1 .. Len(rows) : rows[i].periodEnd <= now + TrialDays + a  BY DEF Within
<1> HIDE DEF a, b
<1>5. \A i \in 1 .. Len(rows) : rows[i].periodEnd <= now + TrialDays + b
  BY <1>2, <1>3, <1>4, Durations DEF TypeOK
<1> QED  BY <1>5 DEF Within, b

\* Rows that end as others do, or with a trial, are within the same bounds.
LEMMA WithinAsBefore ==
    ASSUME TypeOK, NEW rows, NEW new, NEW pays \in Seq(Payment), NEW u,
           Within(rows, PaidIn(pays, u)),
           \A i \in 1 .. Len(new) : \/ \E j \in 1 .. Len(rows) : new[i].periodEnd = rows[j].periodEnd
                                    \/ new[i].periodEnd = now + TrialDays
    PROVE  Within(new, PaidIn(pays, u))
<1> DEFINE a == PeriodDays * Cardinality(PaidIn(pays, u))
<1>1. a \in Nat  BY PaidFinite, PeriodsGrow
<1>2. now + TrialDays <= now + TrialDays + a  BY <1>1, Durations DEF TypeOK
<1> QED  BY <1>2 DEF Within

------------------------------------------------------------------------------
(* What the operations decide.                                             *)

LEMMA BeginFree ==
    ASSUME FreeInv, TypeInv', NEW w, NEW s, NEW pays, Begin(w, Dirty(s, pays)),
           \A u \in Users : Within(s[u], PaidIn(pays, u)),
           \A p \in 1 .. Len(payments) : /\ pays[p].user = payments[p].user
                                         /\ pays[p].status \in {payments[p].status, "SUCCEEDED"}
    PROVE  FreeInv'
<1> DEFINE new == [by |-> w, read |-> Stored, dirty |-> Dirty(s, pays)]
<1>1. inflight' = inflight \cup {new} /\ UNCHANGED <<now, subs, payments>>  BY DEF Begin
<1>2. new.read.payments = payments /\ new.dirty.payments = pays /\ new.dirty.subs = s
  BY DEF Stored, Dirty
<1> HIDE DEF new
<1>3. Earned(new)  BY <1>2 DEF Earned
<1>4. Settles(new)  BY <1>2 DEF Settles
<1>5. \A r \in inflight' : Earned(r) /\ Settles(r)  BY <1>1, <1>3, <1>4 DEF FreeInv
<1> QED  BY <1>1, <1>5 DEF FreeInv, Earned, Within, Settles

LEMMA SubscriptionRouteFree ==
    ASSUME FreeInv, TypeInv', NEW w, NEW u \in Users, SubscriptionRoute(w, u)
    PROVE  FreeInv'
<1> DEFINE rows == subs[u]
           i == GetSubscription(rows)
<1>1. rows \in Seq(Subscription) /\ now \in Nat /\ payments \in Seq(Payment)
      /\ subs \in [Users -> Seq(Subscription)] /\ TypeOK
  BY DEF FreeInv, TypeInv, TypeOK
<1>2. ASSUME NEW new, Begin(w, WithRows(u, new)),
             \A k \in 1 .. Len(new) : \/ \E j \in 1 .. Len(rows) : new[k].periodEnd = rows[j].periodEnd
                                      \/ new[k].periodEnd = now + TrialDays
      PROVE  FreeInv'
  <2>1. Within(new, PaidIn(payments, u))  BY <1>1, <1>2, WithinAsBefore DEF FreeInv
  <2>2. \A v \in Users : Within([subs EXCEPT ![u] = new][v], PaidIn(payments, v))
    BY <1>1, <2>1 DEF FreeInv
  <2> QED  BY <1>2, <2>2, BeginFree DEF WithRows
<1>3. CASE BeginTrial(w, u)
  <2>1. \A k \in 1 .. Len(WithTrial(rows)) :
           \/ \E j \in 1 .. Len(rows) : WithTrial(rows)[k].periodEnd = rows[j].periodEnd
           \/ WithTrial(rows)[k].periodEnd = now + TrialDays
    <3>1. NewTrial.periodEnd = now + TrialDays  BY DEF NewTrial
    <3>2. NewTrial \in Subscription  BY <1>1, Durations DEF NewTrial, Subscription, SubscriptionStatus
    <3> HIDE DEF rows
    <3> QED  BY <1>1, <3>1, <3>2 DEF WithTrial
  <2> QED  BY <1>2, <1>3, <2>1 DEF BeginTrial
<1>4. ASSUME rows # <<>>, NEW sub, sub.periodEnd = rows[i].periodEnd,
             Begin(w, WithRows(u, [rows EXCEPT ![i] = sub]))
      PROVE  FreeInv'
  <2>1. \A k \in 1 .. Len(rows) : [rows EXCEPT ![i] = sub][k].periodEnd = rows[k].periodEnd
    BY <1>1, <1>4
  <2>2. Len([rows EXCEPT ![i] = sub]) = Len(rows)  BY <1>1
  <2> QED  BY <1>2, <1>4, <2>1, <2>2
<1>5. rows # <<>> => rows[i] \in Subscription  BY <1>1, GetSubscriptionInRows
<1>6. CASE Cancel(w, u)
  <2>1. rows # <<>> /\ Cancelled(rows[i]).periodEnd = rows[i].periodEnd
    BY <1>5, <1>6 DEF Cancel, Cancelled, Subscription
  <2>2. Begin(w, WithRows(u, [rows EXCEPT ![i] = Cancelled(rows[i])]))  BY <1>6 DEF Cancel
  <2> QED  BY <1>4, <2>1, <2>2
<1>7. CASE Resume(w, u)
  <2>1. rows # <<>> /\ Resumed(rows[i]).periodEnd = rows[i].periodEnd
    BY <1>5, <1>7 DEF Resume, Resumed, Subscription
  <2>2. Begin(w, WithRows(u, [rows EXCEPT ![i] = Resumed(rows[i])]))  BY <1>7 DEF Resume
  <2> QED  BY <1>4, <2>1, <2>2
<1> QED  BY <1>3, <1>6, <1>7 DEF SubscriptionRoute

LEMMA ExpireFree ==
    ASSUME FreeInv, TypeInv', NEW w, ExpireSubscriptions(w)
    PROVE  FreeInv'
<1> DEFINE retired(u) == [i \in DOMAIN subs[u] |-> Expired(subs[u][i])]
           s == [u \in Users |-> retired(u)]
<1>1. TypeOK /\ payments \in Seq(Payment)  BY DEF FreeInv, TypeInv, TypeOK
<1>2. ASSUME NEW u \in Users PROVE Within(retired(u), PaidIn(payments, u))
  <2>1. subs[u] \in Seq(Subscription)  BY <1>1 DEF TypeOK
  <2>2. DOMAIN subs[u] = 1 .. Len(subs[u]) /\ Len(subs[u]) \in Nat  BY <2>1
  <2>3. Len(retired(u)) = Len(subs[u])  BY <2>2
  <2>4. \A i \in 1 .. Len(subs[u]) : retired(u)[i].periodEnd = subs[u][i].periodEnd
    BY <2>1, <2>2 DEF Expired, Subscription
  <2> HIDE DEF retired
  <2> QED  BY <1>1, <2>3, <2>4, WithinAsBefore DEF FreeInv
<1>3. Begin(w, Dirty(s, payments))  BY DEF ExpireSubscriptions
<1>4. \A u \in Users : Within(s[u], PaidIn(payments, u))  BY <1>2
<1> HIDE DEF s
<1> QED  BY <1>3, <1>4, BeginFree

\* The period that a confirmation adds is paid for by the payment it settles.
LEMMA ActivatedWithin ==
    ASSUME TypeOK, NEW rows \in Seq(Subscription), NEW i \in 1 .. Len(rows), NEW S, NEW T,
           IsFiniteSet(S), NEW p, p \notin S, T = S \cup {p}, Within(rows, S)
    PROVE  Within([rows EXCEPT ![i] = Activated(rows[i])], T)
<1> DEFINE n == Cardinality(S)
           new == [rows EXCEPT ![i] = Activated(rows[i])]
           a == PeriodDays * n
<1>1. n \in Nat /\ IsFiniteSet(T) /\ Cardinality(T) = n + 1
  BY FS_CardinalityType, FS_AddElement
<1>2. Within(rows, T)  BY <1>1, WithinMore
<1>3. rows[i] \in Subscription /\ Within(rows, S)  BY ElementOfSeq
<1>4. rows[i].periodEnd \in Nat /\ rows[i].periodEnd <= now + TrialDays + a
  BY <1>3 DEF Within, Subscription
<1>5. Activated(rows[i]).periodEnd = Later(now, rows[i].periodEnd) + PeriodDays
  BY <1>3 DEF Activated, Subscription
<1>6. a \in Nat /\ PeriodDays * (n + 1) = a + PeriodDays  BY <1>1, Durations
<1> HIDE DEF a
<1>7. Activated(rows[i]).periodEnd <= now + TrialDays + (a + PeriodDays)
  BY <1>4, <1>5, <1>6, Durations DEF Later, TypeOK
<1>8. Len(new) = Len(rows) /\ \A k \in 1 .. Len(rows) : k # i => new[k] = rows[k]
  OBVIOUS
<1>9. new[i] = Activated(rows[i])  OBVIOUS
<1> HIDE DEF n, new
<1>10. ASSUME NEW k \in 1 .. Len(new)
       PROVE  new[k].periodEnd <= now + TrialDays + PeriodDays * Cardinality(T)
  <2>1. CASE k = i  BY <1>1, <1>6, <1>7, <1>9, <2>1
  <2>2. CASE k # i  BY <1>2, <1>8, <2>2 DEF Within
  <2> QED  BY <2>1, <2>2
<1> QED  BY <1>10 DEF Within, new

LEMMA ConfirmFree ==
    ASSUME FreeInv, TypeInv', NEW w, NEW p \in DOMAIN payments, ConfirmPayment(w, p)
    PROVE  FreeInv'
<1> DEFINE u == payments[p].user
           rows == OrTrial(subs[u])
           i == GetSubscription(rows)
           sub == Activated(rows[i])
           paid == Settled([payments[p] EXCEPT !.atGateway = FALSE], sub)
           s == [subs EXCEPT ![u] = [rows EXCEPT ![i] = sub]]
           pays == [payments EXCEPT ![p] = paid]
<1>1. payments \in Seq(Payment) /\ subs \in [Users -> Seq(Subscription)] /\ now \in Nat /\ TypeOK
  BY DEF FreeInv, TypeInv, TypeOK
<1>2. p \in 1 .. Len(payments) /\ payments[p] \in Payment  BY <1>1
<1>3. u \in Users /\ payments[p].status # "SUCCEEDED"  BY <1>2 DEF Payment, ConfirmPayment
<1>4. [payments[p] EXCEPT !.atGateway = FALSE].user = u  BY <1>2 DEF Payment
<1>5. Begin(w, Dirty(s, pays))  BY <1>4 DEF ConfirmPayment, Activate
<1>6. paid.user = u /\ paid.status = "SUCCEEDED"  BY <1>2 DEF Settled, Payment
<1>7. Len(pays) = Len(payments) /\ pays[p] = paid
      /\ \A q \in 1 .. Len(payments) : q # p => pays[q] = payments[q]
  BY <1>1, <1>2
<1>8. rows \in Seq(Subscription) /\ rows # <<>> /\ i \in 1 .. Len(rows)
  BY <1>1, <1>3, WithTrialType, GetSubscriptionInRows
<1>9. Within(rows, PaidIn(payments, u))
  <2>1. CASE subs[u] # <<>>  BY <1>3, <2>1 DEF OrTrial, FreeInv
  <2>2. CASE subs[u] = <<>>
    <3>1. rows = <<NewTrial>>  BY <2>2 DEF OrTrial, WithTrial, AnyEntitled
    <3>2. \A k \in 1 .. Len(rows) : rows[k].periodEnd = now + TrialDays
      BY <3>1 DEF NewTrial
    <3> HIDE DEF rows
    <3> QED  BY <1>1, <3>2, WithinAsBefore, <1>3 DEF FreeInv
  <2> QED  BY <2>1, <2>2
<1> HIDE DEF rows, i, paid, pays, u
<1>10. PaidIn(pays, u) = PaidIn(payments, u) \cup {p} /\ p \notin PaidIn(payments, u)
  BY <1>2, <1>3, <1>6, <1>7 DEF PaidIn, u
<1>11. Within(s[u], PaidIn(pays, u))
  <2>1. Within([rows EXCEPT ![i] = sub], PaidIn(pays, u))
    BY <1>1, <1>8, <1>9, <1>10, PaidFinite, ActivatedWithin
  <2> QED  BY <1>1, <1>3, <2>1
<1>12. ASSUME NEW v \in Users, v # u PROVE Within(s[v], PaidIn(pays, v))
  <2>1. PaidIn(pays, v) = PaidIn(payments, v)  BY <1>2, <1>6, <1>7, <1>12 DEF PaidIn, u
  <2> QED  BY <1>1, <1>12, <2>1 DEF FreeInv
<1>13. \A q \in 1 .. Len(payments) : /\ pays[q].user = payments[q].user
                                     /\ pays[q].status \in {payments[q].status, "SUCCEEDED"}
  BY <1>6, <1>7 DEF u
<1> HIDE DEF s
<1> QED  BY <1>5, <1>11, <1>12, <1>13, BeginFree

------------------------------------------------------------------------------
(* What is stored.                                                         *)

LEMMA CheckoutFree ==
    ASSUME FreeInv, TypeInv', NEW u, NEW g, Checkout(u, g)
    PROVE  FreeInv'
<1> DEFINE new == [user |-> u, status |-> "PENDING", atGateway |-> g,
                   start |-> now, end |-> now + PeriodDays]
<1>1. payments' = Append(payments, new) /\ UNCHANGED <<now, subs, inflight>>  BY DEF Checkout
<1>2. payments \in Seq(Payment) /\ payments' \in Seq(Payment) /\ subs \in [Users -> Seq(Subscription)]
      /\ inflight \subseteq Request /\ TypeOK /\ Len(payments) \in Nat
  BY DEF FreeInv, TypeInv, TypeOK
<1>3. Len(payments') = Len(payments) + 1
      /\ \A p \in 1 .. Len(payments) : payments'[p] = payments[p]
  BY <1>1, <1>2
<1>4. ASSUME NEW v \in Users PROVE Within(subs[v], PaidIn(payments', v))
  <2>1. PaidIn(payments, v) \subseteq PaidIn(payments', v)  BY <1>2, <1>3 DEF PaidIn
  <2>2. subs[v] \in Seq(Subscription) /\ Within(subs[v], PaidIn(payments, v))
    BY <1>2 DEF FreeInv
  <2> QED  BY <1>2, <2>1, <2>2, PaidFinite, WithinMore
<1>5. ASSUME NEW r \in inflight PROVE Settles(r)'
  <2>1. Len(r.read.payments) \in Nat
    <3>1. r.read.payments \in Seq(Payment)  BY <1>2 DEF Request, Tables
    <3> QED  BY <3>1
  <2>2. Len(r.read.payments) <= Len(payments)  BY DEF FreeInv, TypeInv, Fits
  <2> QED  BY <1>2, <1>3, <2>1, <2>2 DEF FreeInv, Settles
<1> QED  BY <1>1, <1>4, <1>5 DEF FreeInv, Earned, Within

LEMMA CommitFree ==
    ASSUME FreeInv, TypeInv', NEW w, Commit(w)
    PROVE  FreeInv'
<1>1. PICK r \in inflight :
        /\ subs' = [u \in Users |-> WriteSubs(subs[u], r.read.subs[u], r.dirty.subs[u])]
        /\ payments' = WritePayments(payments, r.read.payments, r.dirty.payments)
        /\ inflight' = inflight \ {r}
        /\ now' = now
  BY DEF Commit
<1>2. TypeOK /\ payments \in Seq(Payment) /\ payments' \in Seq(Payment)
      /\ subs \in [Users -> Seq(Subscription)] /\ subs' \in [Users -> Seq(Subscription)]
  BY DEF FreeInv, TypeInv, TypeOK
<1>3. ASSUME NEW q \in inflight
      PROVE  /\ q.read.subs \in [Users -> Seq(Subscription)]
             /\ q.dirty.subs \in [Users -> Seq(Subscription)]
             /\ q.read.payments \in Seq(Payment) /\ q.dirty.payments \in Seq(Payment)
             /\ Fits(q) /\ Settles(q) /\ Earned(q)
  BY DEF FreeInv, TypeInv, TypeOK, Request, Tables
<1>4. Len(payments) \in Nat /\ Len(r.read.payments) \in Nat
      /\ Len(r.dirty.payments) = Len(r.read.payments) /\ Len(r.read.payments) <= Len(payments)
  BY <1>2, <1>3 DEF Fits
<1>5. ASSUME NEW p \in 1 .. Len(payments)
      PROVE  /\ payments'[p].user = payments[p].user
             /\ payments[p].status = "SUCCEEDED" => payments'[p].status = "SUCCEEDED"
             /\ p <= Len(r.read.payments) /\ r.dirty.payments[p].status = "SUCCEEDED"
                    => payments'[p].status = "SUCCEEDED"
  <2>1. payments'[p] = IF p <= Len(r.read.payments)
                       THEN WritePayment(payments[p], r.read.payments[p], r.dirty.payments[p])
                       ELSE payments[p]
    BY <1>1 DEF WritePayments
  <2>2. CASE p <= Len(r.read.payments)
    <3>1. p \in 1 .. Len(r.read.payments)  BY <1>4, <2>2
    <3>2. /\ r.dirty.payments[p].status \in {r.read.payments[p].status, "SUCCEEDED"}
          /\ r.read.payments[p].status = "SUCCEEDED" => payments[p].status = "SUCCEEDED"
      BY <1>3, <3>1 DEF Settles
    <3> QED  BY <2>1, <2>2, <3>2 DEF WritePayment, Column
  <2>3. CASE ~ (p <= Len(r.read.payments))  BY <2>1, <2>3
  <2> QED  BY <2>2, <2>3
<1>6. Len(payments') = Len(payments)  BY <1>1, <1>2, <1>3, WritePaymentsType DEF Fits
<1>7. ASSUME NEW u \in Users
      PROVE  /\ PaidIn(payments, u) \subseteq PaidIn(payments', u)
             /\ PaidIn(r.dirty.payments, u) \subseteq PaidIn(payments', u)
  <2>1. PaidIn(payments, u) \subseteq PaidIn(payments', u)  BY <1>5, <1>6 DEF PaidIn
  <2>2. ASSUME NEW p \in PaidIn(r.dirty.payments, u) PROVE p \in PaidIn(payments', u)
    <3>1. p \in 1 .. Len(r.read.payments) /\ p \in 1 .. Len(payments)
          /\ r.dirty.payments[p].user = u /\ r.dirty.payments[p].status = "SUCCEEDED"
      BY <1>4 DEF PaidIn
    <3>2. payments[p].user = u  BY <1>3, <3>1 DEF Settles
    <3> QED  BY <1>4, <1>5, <1>6, <3>1, <3>2 DEF PaidIn
  <2> QED  BY <2>1, <2>2
<1>8. ASSUME NEW u \in Users PROVE Within(subs'[u], PaidIn(payments', u))
  <2> DEFINE stored == subs[u]
             read == r.read.subs[u]
             dirty == r.dirty.subs[u]
             paid == PaidIn(payments', u)
  <2>1. stored \in Seq(Subscription) /\ read \in Seq(Subscription) /\ dirty \in Seq(Subscription)
        /\ Len(read) <= Len(stored) /\ Len(read) <= Len(dirty)
    BY <1>2, <1>3 DEF Fits
  <2>2. Within(stored, paid) /\ Within(dirty, paid)
    <3>1. Within(stored, PaidIn(payments, u)) /\ Within(dirty, PaidIn(r.dirty.payments, u))
      BY <1>3 DEF FreeInv, Earned
    <3> HIDE DEF stored, dirty, read
    <3> QED  BY <1>2, <1>7, <2>1, <3>1, PaidFinite, WithinMore
  <2>3. subs'[u] = WriteSubs(stored, read, dirty)  BY <1>1
  <2> HIDE DEF stored, read, dirty, paid
  <2>4. ASSUME NEW i \in 1 .. Len(subs'[u])
        PROVE  \/ \E j \in 1 .. Len(stored) : subs'[u][i].periodEnd = stored[j].periodEnd
               \/ \E j \in 1 .. Len(dirty) : subs'[u][i].periodEnd = dirty[j].periodEnd
    <3>1. Len(stored) \in Nat /\ Len(read) \in Nat /\ Len(dirty) \in Nat  BY <2>1
    <3>2. i \in 1 .. Len(stored) + Len(dirty) - Len(read)
          /\ subs'[u][i] = IF i <= Len(read) THEN WriteSub(stored[i], read[i], dirty[i])
                           ELSE IF i <= Len(stored) THEN stored[i]
                           ELSE dirty[i - Len(stored) + Len(read)]
      BY <2>1, <2>3, <3>1 DEF WriteSubs
    <3>3. CASE i <= Len(read)
      <4>1. i \in 1 .. Len(stored) /\ i \in 1 .. Len(dirty)  BY <2>1, <3>1, <3>2, <3>3
      <4> QED  BY <3>2, <3>3, <4>1 DEF WriteSub, Column
    <3>4. CASE i > Len(read) /\ i <= Len(stored)
      <4>1. i \in 1 .. Len(stored)  BY <3>1, <3>2, <3>4
      <4>2. subs'[u][i] = stored[i]  BY <3>1, <3>2, <3>4
      <4> QED  BY <4>1, <4>2
    <3>5. CASE i > Len(read) /\ i > Len(stored)
      <4>1. i - Len(stored) + Len(read) \in 1 .. Len(dirty)  BY <2>1, <3>1, <3>2, <3>5
      <4>2. subs'[u][i] = dirty[i - Len(stored) + Len(read)]  BY <3>1, <3>2, <3>5
      <4> QED  BY <4>1, <4>2
    <3> QED  BY <3>1, <3>2, <3>3, <3>4, <3>5
  <2> QED  BY <2>2, <2>4 DEF Within, paid
<1>9. ASSUME NEW q \in inflight' PROVE Earned(q)' /\ Settles(q)'
  <2>1. q \in inflight /\ Settles(q) /\ Earned(q)  BY <1>1, <1>3
  <2>2. 1 .. Len(q.read.payments) \subseteq 1 .. Len(payments)
    <3>1. Len(q.read.payments) \in Nat /\ Len(q.read.payments) <= Len(payments)
      BY <1>3, <2>1 DEF Fits
    <3> QED  BY <1>4, <3>1
  <2>3. Settles(q)'  BY <1>5, <2>1, <2>2 DEF Settles
  <2> QED  BY <1>1, <2>1, <2>3 DEF Earned, Within
<1> QED  BY <1>1, <1>8, <1>9 DEF FreeInv, Within

LEMMA FreeInvStep == GatewayStatuses = {} /\ FreeInv /\ [Next]_vars => FreeInv'
<1> SUFFICES ASSUME GatewayStatuses = {}, FreeInv, [Next]_vars PROVE FreeInv'  OBVIOUS
<1>1. TypeInv'  BY TypeInvStep DEF FreeInv
<1>2. ASSUME NEW w, NEW p \in DOMAIN payments, PaymentRoute(w, p) PROVE FreeInv'
  BY <1>1, <1>2, ConfirmFree DEF PaymentRoute
<1>3. ASSUME NEW u, ManualCheckout(u) \/ GatewayCheckout(u) PROVE FreeInv'
  BY <1>1, <1>3, CheckoutFree DEF ManualCheckout, GatewayCheckout
<1>4. CASE Tick
  <2>1. inflight' = {} /\ subs' = subs /\ payments' = payments /\ now' = now + 1
    BY <1>4 DEF Tick
  <2>2. ASSUME NEW u \in Users, NEW i \in 1 .. Len(subs[u])
        PROVE  subs[u][i].periodEnd <= now + 1 + TrialDays
                                        + PeriodDays * Cardinality(PaidIn(payments, u))
    <3> DEFINE a == PeriodDays * Cardinality(PaidIn(payments, u))
    <3>1. a \in Nat  BY PaidFinite, PeriodsGrow DEF FreeInv, TypeInv, TypeOK
    <3>2. subs[u][i] \in Subscription  BY ElementOfSeq DEF FreeInv, TypeInv, TypeOK
    <3>3. subs[u][i].periodEnd \in Nat /\ now \in Nat
      BY <3>2 DEF Subscription, FreeInv, TypeInv, TypeOK
    <3>4. subs[u][i].periodEnd <= now + TrialDays + a  BY DEF FreeInv, Within
    <3> HIDE DEF a
    <3>5. subs[u][i].periodEnd <= now + 1 + TrialDays + a  BY <3>1, <3>3, <3>4, Durations
    <3> QED  BY <3>5 DEF a
  <2> QED  BY <1>1, <2>1, <2>2 DEF FreeInv, Within
<1>5. CASE UNCHANGED vars  BY <1>1, <1>5 DEF vars, FreeInv, Earned, Within, Settles
<1> QED
  BY <1>1, <1>2, <1>3, <1>4, <1>5, SubscriptionRouteFree, ExpireFree, CommitFree DEF Next

\* activate_subscription, confirm_payment: without callbacks, nobody holds more
\* time than a trial and one period per received payment, however many requests
\* overlap and whichever of them overwrite each other.
THEOREM TimeIsPaidFor ==
    ASSUME GatewayStatuses = {}
    PROVE  Spec => []NoFreeTime
<1>1. Init => FreeInv
  <2> SUFFICES ASSUME Init PROVE FreeInv  OBVIOUS
  <2>1. TypeInv  BY DEF Init, TypeInv, TypeOK, Subscription, Payment
  <2> QED  BY <2>1 DEF Init, FreeInv, Within
<1>2. FreeInv => NoFreeTime
  <2> SUFFICES ASSUME FreeInv, NEW u \in Users, NEW i \in DOMAIN subs[u]
               PROVE  subs[u][i].periodEnd
                        <= now + TrialDays + PeriodDays * Cardinality(Received(u))
    BY DEF NoFreeTime
  <2>1. subs[u] \in Seq(Subscription) /\ payments \in Seq(Payment)
    BY DEF FreeInv, TypeInv, TypeOK
  <2>2. i \in 1 .. Len(subs[u]) /\ Received(u) = PaidIn(payments, u)
    BY <2>1 DEF Received, PaidIn
  <2> QED  BY <2>2 DEF FreeInv, Within
<1> QED  BY <1>1, <1>2, FreeInvStep, PTL DEF Spec
==============================================================================
