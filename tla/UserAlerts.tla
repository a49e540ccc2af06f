------------------------------ MODULE UserAlerts ------------------------------
(***************************************************************************)
(* Subscribers' price alerts (src/backend/notify/user_alerts.py) over the  *)
(* quote cache.  The scheduler sweeps all active alerts in one database    *)
(* transaction: it reads them, refreshes the stale quotes, evaluates one   *)
(* alert after the other, sends the e-mail of one that fires at once, and  *)
(* commits quotes and trigger counts at the end.  Meanwhile the owner of   *)
(* an alert may pause, resume or delete it (routes_workspace.py).          *)
(*                                                                         *)
(* An alert here is one on a price above a level; the other conditions     *)
(* differ only in the figure they compare.  Left out: the text and the     *)
(* time of the last trigger, and the log of e-mails.                       *)
(***************************************************************************)
EXTENDS Quotes

CONSTANTS
    Alerts,             \* row identifiers
    Levels,             \* the levels owners choose
    MaxCount            \* bound: mails and recorded triggers of an alert

ASSUME AlertsAssumption == Levels \subseteq Nat /\ MaxCount \in Nat

VARIABLES
    alerts,     \* alerts[a]: the stored row
    sweep,      \* the running sweep, or Idle
    mails       \* mails[a]: e-mails handed over for a

alertVars == <<alerts, sweep, mails>>
vars == <<quotesVars, alertVars>>

Unused == [state |-> "unused"]
Deleted == [state |-> "deleted"]

Row == [state : {"stored"}, ticker : Tickers, level : Levels, active : BOOLEAN,
        email : BOOLEAN, count : Nat]

Stored(a) == alerts[a].state = "stored"
Active(a) == Stored(a) /\ alerts[a].active

Idle == [running |-> FALSE]

Sweep == [running : {TRUE}, read : [Alerts -> Row \cup {Unused}],
          quotes : [Tickers -> Quote \cup {NoQuote}], refreshed : SUBSET Tickers,
          todo : SUBSET Alerts, fired : SUBSET Alerts]

------------------------------------------------------------------------------
(* The routes. *)

CreateAlert(a, row) ==
    /\ alerts[a] = Unused
    /\ alerts' = [alerts EXCEPT ![a] = row]
    /\ UNCHANGED <<quotesVars, sweep, mails>>

ToggleAlert(a) ==
    /\ Stored(a)
    /\ alerts' = [alerts EXCEPT ![a].active = ~ @]
    /\ UNCHANGED <<quotesVars, sweep, mails>>

DeleteAlert(a) ==
    /\ Stored(a)
    /\ alerts' = [alerts EXCEPT ![a] = Deleted]
    /\ UNCHANGED <<quotesVars, sweep, mails>>

------------------------------------------------------------------------------
(* The sweep. *)

\* Mutant: a generated price is evaluated like any other.
FiresOnAnything(row, q) == q # NoQuote /\ q.price > row.level

\* evaluate_alert: without a quote, and on demonstration data, it is skipped.
Fires(row, q) == q # NoQuote /\ ~ q.isDemo /\ q.price > row.level

\* The refreshed rows are flushed, not committed: until the end of the sweep
\* nobody else can write them.
BeginSweep ==
    /\ ~ sweep.running
    /\ \E a \in Alerts : Active(a)
    /\ \A a \in Alerts : Active(a) => alerts[a].count < MaxCount /\ mails[a] < MaxCount
    /\ LET todo == {a \in Alerts : Active(a)}
           wanted == Stale({alerts[a].ticker : a \in todo})
       IN  \E fetched \in IF wanted = {} THEN {NoRows} ELSE Fetched(wanted) :
              sweep' = [running |-> TRUE, quotes |-> Over(quotes, fetched),
                        read |-> [a \in Alerts |-> IF a \in todo THEN alerts[a] ELSE Unused],
                        refreshed |-> DOMAIN fetched, todo |-> todo, fired |-> {}]
    /\ UNCHANGED <<quotesVars, alerts, mails>>

\* Mutant: only the first alert that fires in a sweep is mailed.
EvaluateFirst(a) ==
    LET row == sweep.read[a]
        fires == Fires(row, sweep.quotes[row.ticker])
    IN  /\ sweep.running
        /\ a \in sweep.todo
        /\ sweep' = [sweep EXCEPT !.todo = @ \ {a},
                                  !.fired = IF fires THEN @ \cup {a} ELSE @]
        /\ mails' = IF fires /\ row.email /\ sweep.fired = {}
                    THEN [mails EXCEPT ![a] = @ + 1] ELSE mails
        /\ UNCHANGED <<quotesVars, alerts>>

\* One alert is evaluated as it was read; the mail goes out before the commit.
Evaluate(a) ==
    LET row == sweep.read[a]
        fires == Fires(row, sweep.quotes[row.ticker])
    IN  /\ sweep.running
        /\ a \in sweep.todo
        /\ sweep' = [sweep EXCEPT !.todo = @ \ {a},
                                  !.fired = IF fires THEN @ \cup {a} ELSE @]
        /\ mails' = IF fires /\ row.email THEN [mails EXCEPT ![a] = @ + 1] ELSE mails
        /\ UNCHANGED <<quotesVars, alerts>>

\* Mutant: the commit writes back the whole row as it was read.
CommittedWhole(a) ==
    [sweep.read[a] EXCEPT !.count = @ + 1]

Committed(a) == [alerts[a] EXCEPT !.count = sweep.read[a].count + 1]

\* The update of an alert that was deleted meanwhile finds no row: the whole
\* transaction is rolled back.
CommitSweep ==
    /\ sweep.running
    /\ sweep.todo = {}
    /\ IF \A a \in sweep.fired : Stored(a)
       THEN /\ alerts' = [a \in Alerts |-> IF a \in sweep.fired THEN Committed(a) ELSE alerts[a]]
            /\ quotes' = [t \in Tickers |-> IF t \in sweep.refreshed THEN sweep.quotes[t]
                                                                     ELSE quotes[t]]
       ELSE UNCHANGED <<alerts, quotes>>
    /\ sweep' = Idle
    /\ UNCHANGED <<now, vendor, bars, mails>>

\* The scheduler's process stops; its transaction is rolled back.
Crash ==
    /\ sweep.running
    /\ sweep' = Idle
    /\ UNCHANGED <<quotesVars, alerts, mails>>

------------------------------------------------------------------------------

Init ==
    /\ QuotesInit
    /\ alerts = [a \in Alerts |-> Unused]
    /\ sweep = Idle
    /\ mails = [a \in Alerts |-> 0]

\* Rows the sweep has flushed are locked, and a change of the configuration
\* restarts the scheduler.
QuotesStep ==
    /\ QuotesNext
    /\ sweep.running => /\ \A t \in sweep.refreshed : quotes'[t] = quotes[t]
                        /\ (vendor = "none") = (vendor' = "none")
    /\ UNCHANGED alertVars

NewRow == {[state |-> "stored", ticker |-> t, level |-> level, active |-> TRUE,
            email |-> email, count |-> 0] :
               t \in Tickers, level \in Levels, email \in BOOLEAN}

Next ==
    \/ QuotesStep
    \/ \E a \in Alerts, row \in NewRow : CreateAlert(a, row)
    \/ \E a \in Alerts : ToggleAlert(a)
    \/ \E a \in Alerts : DeleteAlert(a)
    \/ BeginSweep
    \/ \E a \in Alerts : Evaluate(a)
    \/ CommitSweep
    \/ Crash

Spec == Init /\ [][Next]_vars

------------------------------------------------------------------------------
(* Properties. *)

TypeOK ==
    /\ QuotesTypeOK
    /\ alerts \in [Alerts -> Row \cup {Unused, Deleted}]
    /\ sweep \in Sweep \cup {Idle}
    /\ mails \in [Alerts -> 0..MaxCount]

\* Demonstration data never fires an alert: a mail goes out only for a price
\* that was not generated, whatever the cache held when the sweep began and
\* whatever refreshed it since.
NeverFiresOnDemo ==
    [][\A a \in Alerts : mails'[a] # mails[a] =>
          /\ sweep.read[a].ticker \in Tickers
          /\ sweep.quotes[sweep.read[a].ticker].made # "GENERATED"]_vars

\* A sweep that overlaps its owner's change of an alert does not undo it: only
\* the owner pauses, resumes or deletes an alert.
OwnerDecides ==
    [][\A a \in Alerts :
          /\ Stored(a) /\ Stored(a)' /\ alerts'[a].active # alerts[a].active => ToggleAlert(a)
          /\ alerts[a] = Deleted => alerts'[a] = Deleted]_vars

\* A recorded trigger of an alert by e-mail was mailed before: crashes and
\* rollbacks repeat a mail, they never lose one.
RecordedWasMailed ==
    \A a \in Alerts : Stored(a) /\ alerts[a].email => alerts[a].count <= mails[a]
==============================================================================
