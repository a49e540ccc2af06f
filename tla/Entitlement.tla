----------------------------- MODULE Entitlement -----------------------------
(***************************************************************************)
(* What billing promises a customer, with nothing of how it is stored: one *)
(* deadline per user.  A user has access while the deadline lies ahead.    *)
(* The deadline moves only forward, only by a trial opened when it has     *)
(* passed or by a payment, and nothing but the calendar ends access.       *)
(* Billing.tla shows the subscription tables of src/backend/billing to     *)
(* implement this when requests do not overlap.                            *)
(***************************************************************************)
EXTENDS Naturals

CONSTANTS
    Users,          \* the customers
    TrialDays,      \* length of the free trial
    PeriodDays      \* length of one paid period

VARIABLES
    today,          \* the current day
    until           \* until[u]: the day access of u ends; 0 before the first

vars == <<today, until>>

Later(a, b) == IF a >= b THEN a ELSE b

HasAccess(u) == until[u] > today

Init ==
    /\ today = 0
    /\ until = [u \in Users |-> 0]

NextDay ==
    /\ today' = today + 1
    /\ until' = until

OpenTrial(u) ==
    /\ ~ HasAccess(u)
    /\ until' = [until EXCEPT ![u] = today + TrialDays]
    /\ today' = today

\* A payment prolongs the period that runs, or starts one today.  A first
\* payment of a user without any subscription opens a trial and prolongs that.
Pay(u) ==
    \E start \in {Later(today, until[u])}
                 \cup {d \in {today + TrialDays} : until[u] = 0} :
        /\ until' = [until EXCEPT ![u] = start + PeriodDays]
        /\ today' = today

Next ==
    \/ NextDay
    \/ \E u \in Users : OpenTrial(u) \/ Pay(u)

Spec == Init /\ [][Next]_vars
==============================================================================
