------------------------------- MODULE Research -------------------------------
(***************************************************************************)
(* Theses, recommendations and internal alerts (src/backend/research,      *)
(* src/backend/reports).  The weekly job (src/backend/jobs/weekly.py) runs *)
(* one step after the other, each in a database session of its own: it     *)
(* researches the names, checks the levels of the theses, and grades old   *)
(* recommendations.  A failed step is rolled back and the job goes on.     *)
(* Meanwhile a visitor may have one name researched.                       *)
(*                                                                         *)
(* A session reads committed rows and writes, at its commit, the columns   *)
(* it changed; two unique columns can refuse it.  (In the database the     *)
(* first to flush wins and the other waits; here the first to commit.)     *)
(* Left out: the agents, who are an analysis chosen freely; texts; the     *)
(* benchmark; the steps that only count rows; alerts on scores, filings    *)
(* and risk, which share CreateAlert; users who acknowledge alerts.        *)
(***************************************************************************)
EXTENDS ThesisLevels, SequencesExt

CONSTANTS
    Tickers,
    Prices,
    Analyses,           \* what the analysts may conclude
    Horizon,            \* Horizon[s]: days until a call of strategy s is graded
    DedupeDays,         \* an alert is not raised again within so many days
    Notifications,      \* whether a channel for notifications is configured
    LastDay,            \* bound: the clock
    MaxCalls,           \* bound: recommendations, and so theses
    MaxFailures         \* bound: steps that fail and crashes

ASSUME ResearchAssumption ==
    /\ Prices \subseteq Nat \ {0}
    /\ Analyses \subseteq [action : Actions, fundamental : {NoScore} \cup Nat,
                           technical : {NoScore} \cup Nat, event : BOOLEAN,
                           chart : [supports : SUBSET Prices, resistances : SUBSET Prices,
                                    atr : Nat, insufficient : BOOLEAN]]
    /\ Horizon \in [Strategies -> Nat]
    /\ {DedupeDays, LastDay, MaxCalls, MaxFailures} \subseteq Nat
    /\ Notifications \in BOOLEAN

VARIABLES
    now,        \* today
    close,      \* close[t][d]: the stored bar, None while there is none
    theses,     \* rows by reference number
    versions,   \* archived states of theses
    calls,      \* recommendations
    alerts,
    sent,       \* alerts that reached a channel
    stage,      \* the step the weekly job is at
    work,       \* work[w]: the open session of w
    clean,      \* history: no two sessions were open at once so far
    failures

rows == <<theses, versions, calls, alerts>>
vars == <<now, close, rows, sent, stage, work, clean, failures>>

Scheduler == "scheduler"
Visitor == "visitor"
Workers == {Scheduler, Visitor}

Days == 0..LastDay
Stages == {"idle", "research", "alerts", "grade"}
Open == {"ACTIVE", "WATCH", "UNDER_REVIEW"}
Levels == [entry : {None} \cup Prices, target : Int, invalidation : Int]

Thesis == [ticker : Tickers, direction : ThesisDirections, strategy : Strategies,
           status : Statuses, version : Nat, levels : Levels]
Archived == [thesis : 1..MaxCalls, version : Nat, levels : Levels]
Call == [ticker : Tickers, thesis : 1..MaxCalls, action : Actions,
         direction : ThesisDirections, strategy : Strategies, entry : {None} \cup Prices,
         day : Days, outcome : {"OPEN", "GRADED", "NO_DATA"}, gain : Int]
Alert == [type : {"PRICE_TARGET", "THESIS_INVALIDATED"}, ticker : Tickers, day : Days,
          notified : BOOLEAN]

NoWork == [kind |-> "none"]
Nobody == [ticker |-> "nobody"]

Busy(w) == work[w] # NoWork

\* The latest bar of t on or before day d.
PriceOn(t, d) ==
    LET days == {e \in 0..d : close[t][e] # None}
    IN  IF days = {} THEN None ELSE close[t][Max(days)]

------------------------------------------------------------------------------
(* The clock, the bars and the weekly job. *)

\* Bound: a day ends while nobody is at work.
Quiet == stage = "idle" /\ \A w \in Workers : ~ Busy(w)

NextDay ==
    /\ now < LastDay
    /\ Quiet
    /\ now' = now + 1
    /\ UNCHANGED <<close, rows, sent, stage, work, clean, failures>>

\* A bar is stored, today's or one that comes late.  Bound: not while alerts
\* are checked, and late ones while nobody is at work.
StoreBar(t, d, p) ==
    /\ stage \in {"idle", "research"}
    /\ d = now \/ (d < now /\ Quiet)
    /\ close[t][d] = None
    /\ close' = [close EXCEPT ![t][d] = p]
    /\ UNCHANGED <<now, rows, sent, stage, work, clean, failures>>

After == [research |-> "alerts", alerts |-> "grade", grade |-> "idle"]

StartWeekly ==
    /\ stage = "idle"
    /\ stage' = "research"
    /\ UNCHANGED <<now, close, rows, sent, work, clean, failures>>

\* A session is opened; history notes whether it is the only one.
OpenSession(w, session) ==
    /\ ~ Busy(w)
    /\ work' = [work EXCEPT ![w] = session]
    /\ clean' = (clean /\ \A v \in Workers : ~ Busy(v))

Stepped(w) == stage' = IF w = Scheduler THEN After[stage] ELSE stage

\* An exception, or a unique column that refuses a row, rolls the session
\* back; _step records it and the job goes on.
Fail(w) ==
    /\ Busy(w) \/ (w = Scheduler /\ stage # "idle")
    /\ failures < MaxFailures
    /\ failures' = failures + 1
    /\ work' = [work EXCEPT ![w] = NoWork]
    /\ Stepped(w)
    /\ UNCHANGED <<now, close, rows, sent, clean>>

\* The process stops: no session commits, and the job is not resumed.
Crash ==
    /\ ~ Quiet
    /\ failures < MaxFailures
    /\ failures' = failures + 1
    /\ work' = [w \in Workers |-> NoWork]
    /\ stage' = "idle"
    /\ UNCHANGED <<now, close, rows, sent, clean>>

------------------------------------------------------------------------------
(* Research: every name on its own, one session for all. *)

\* Recommendations that may still be added to the stored ones.
Coming(w) == IF work[w].kind = "research"
             THEN Cardinality(work[w].todo) + Len(work[w].said) ELSE 0
InFlight == Coming(Scheduler) + Coming(Visitor)

\* The names are those whose analysis did not fail and that made the list.
BeginResearch(w, names) ==
    /\ w = Scheduler => stage = "research"
    /\ w = Visitor => Cardinality(names) = 1
    /\ Len(calls) + Cardinality(names) + InFlight <= MaxCalls
    /\ OpenSession(w, [kind |-> "research", day |-> now, todo |-> names, looking |-> Nobody,
                       base |-> 0, opened |-> <<>>, updated |-> <<>>, said |-> <<>>])
    /\ UNCHANGED <<now, close, rows, sent, stage, failures>>

Researching(w) == work[w].kind = "research"

Row(t, a, day) ==
    [ticker |-> t, direction |-> DirectionOf(a), strategy |-> ClassifyStrategy(a),
     status |-> StatusFor(a.action), version |-> 1,
     levels |-> DeriveLevels(a.chart, PriceOn(t, day), DirectionOf(a))]

Said(row, action, i, day) ==
    [ticker |-> row.ticker, thesis |-> i, action |-> action, direction |-> row.direction,
     strategy |-> row.strategy, entry |-> row.levels.entry, day |-> day,
     outcome |-> "OPEN", gain |-> 0]

\* Mutants: a thesis on watch is not looked for; a disproved one is.
ExistingActive(row) ==
    {i \in DOMAIN theses : /\ theses[i].ticker = row.ticker
                           /\ theses[i].direction = row.direction
                           /\ theses[i].status \in {"ACTIVE", "UNDER_REVIEW"}}
ExistingDisproved(row) ==
    {i \in DOMAIN theses : /\ theses[i].ticker = row.ticker
                           /\ theses[i].direction = row.direction
                           /\ theses[i].status \in Open \cup {"INVALIDATED"}}

Existing(row) ==
    {i \in DOMAIN theses : /\ theses[i].ticker = row.ticker
                           /\ theses[i].direction = row.direction
                           /\ theses[i].status \in Open}

\* upsert_thesis looks for the open thesis of this name and direction.
Consider(w, t, a) ==
    LET row == Row(t, a, work[w].day)
    IN  /\ Researching(w)
        /\ work[w].looking = Nobody
        /\ t \in work[w].todo
        /\ IF Existing(row) = {}
           THEN work' = [work EXCEPT ![w].looking = [ticker |-> t, row |-> row,
                                                     action |-> a.action]]
           ELSE \E i \in Existing(row) :
                work' = [work EXCEPT
                    ![w].todo = @ \ {t},
                    ![w].updated = Append(@, [id |-> i, was |-> theses[i],
                        now |-> [row EXCEPT !.version = theses[i].version + 1]]),
                    ![w].said = Append(@, Said(row, a.action, i, work[w].day))]
        /\ UNCHANGED <<now, close, rows, sent, stage, clean, failures>>

\* There was none: a later query counts the rows, and the count is the reference.
OpenThesis(w) ==
    LET found == work[w].looking
        i == Len(theses) + Len(work[w].opened) + 1
    IN  /\ Researching(w)
        /\ found # Nobody
        /\ work' = [work EXCEPT
               ![w].todo = @ \ {found.ticker}, ![w].looking = Nobody, ![w].base = Len(theses),
               ![w].opened = Append(@, found.row),
               ![w].said = Append(@, Said(found.row, found.action, i, work[w].day))]
        /\ UNCHANGED <<now, close, rows, sent, stage, clean, failures>>

\* Mutant: versions are not unique per thesis.
RefusedReference(w) == work[w].opened # <<>> /\ work[w].base # Len(theses)

\* The reference of a new thesis, or the version archived, exists by now.
Refused(w) ==
    \/ work[w].opened # <<>> /\ work[w].base # Len(theses)
    \/ \E u \in ToSet(work[w].updated), v \in versions :
          v.thesis = u.id /\ v.version = u.was.version

\* The columns that were changed are written over what is stored by now.
Written(stored, u) ==
    [f \in DOMAIN stored |-> IF u.now[f] # u.was[f] THEN u.now[f] ELSE stored[f]]

Archive(u) == [thesis |-> u.id, version |-> u.was.version, levels |-> u.was.levels]

CommitResearch(w) ==
    LET updates == ToSet(work[w].updated)
        update(i) == CHOOSE u \in updates : u.id = i
    IN  /\ Researching(w)
        /\ work[w].todo = {}
        /\ IF Refused(w)
           THEN UNCHANGED rows
           ELSE /\ theses' = [i \in DOMAIN theses |->
                                 IF \E u \in updates : u.id = i
                                 THEN Written(theses[i], update(i)) ELSE theses[i]]
                             \o work[w].opened
                /\ versions' = versions \cup {Archive(u) : u \in updates}
                /\ calls' = calls \o work[w].said
                /\ UNCHANGED alerts
        /\ work' = [work EXCEPT ![w] = NoWork]
        /\ Stepped(w)
        /\ UNCHANGED <<now, close, sent, clean, failures>>

------------------------------------------------------------------------------
(* Alerts: every live thesis against today's price, then notifications. *)

BeginAlerts ==
    /\ stage = "alerts"
    /\ OpenSession(Scheduler,
           [kind |-> "alerts", day |-> now, read |-> theses, raised |-> <<>>, stopped |-> {},
            todo |-> {i \in DOMAIN theses : theses[i].status # "INVALIDATED"},
            dispatched |-> FALSE, delivered |-> {}])
    /\ UNCHANGED <<now, close, rows, sent, stage, failures>>

Session == work[Scheduler]
Alerting == Session.kind = "alerts"

Raised(type, t) == [type |-> type, ticker |-> t, day |-> now, notified |-> FALSE]

\* Mutant: an alert that could not be delivered does not count.
ExistsNotified(type, t) ==
    \E a \in ToSet(alerts) :
        a.type = type /\ a.ticker = t /\ a.day >= now - DedupeDays /\ a.notified

\* The title names the ticker only.
Exists(type, t) ==
    \E a \in ToSet(alerts \o Session.raised) :
        a.type = type /\ a.ticker = t /\ a.day >= now - DedupeDays

\* A thesis becomes INVALIDATED only together with a new alert.
CheckThesis(i) ==
    LET thesis == Session.read[i]
        t == thesis.ticker
        price == PriceOn(t, Session.day)
        wins == TargetReached(thesis.direction, thesis.levels, price)
                  /\ ~ Exists("PRICE_TARGET", t)
        fails == Breached(thesis.direction, thesis.levels, price)
                   /\ ~ Exists("THESIS_INVALIDATED", t)
    IN  /\ Alerting
        /\ i \in Session.todo
        /\ work' = [work EXCEPT
               ![Scheduler].todo = @ \ {i},
               ![Scheduler].raised = @ \o (IF wins THEN <<Raised("PRICE_TARGET", t)>> ELSE <<>>)
                                       \o (IF fails THEN <<Raised("THESIS_INVALIDATED", t)>>
                                                    ELSE <<>>),
               ![Scheduler].stopped = IF fails THEN @ \cup {i} ELSE @]
        /\ UNCHANGED <<now, close, rows, sent, stage, clean, failures>>

Key(a) == [type |-> a.type, ticker |-> a.ticker, day |-> a.day]

\* Mutant: what was attempted counts as delivered.
DispatchAttempted ==
    LET all == alerts \o Session.raised
        pending == {k \in DOMAIN all : ~ all[k].notified}
    IN  /\ Alerting
        /\ Session.todo = {}
        /\ ~ Session.dispatched
        /\ \E done \in IF Notifications THEN SUBSET pending ELSE {{}} :
              /\ work' = [work EXCEPT ![Scheduler].dispatched = TRUE,
                                      ![Scheduler].delivered = pending]
              /\ sent' = sent \cup {Key(all[k]) : k \in done}
        /\ UNCHANGED <<now, close, rows, stage, clean, failures>>

\* Webhook, else e-mail, for every alert not notified yet; each may fail.
Dispatch ==
    LET all == alerts \o Session.raised
        pending == {k \in DOMAIN all : ~ all[k].notified}
    IN  /\ Alerting
        /\ Session.todo = {}
        /\ ~ Session.dispatched
        /\ \E done \in IF Notifications THEN SUBSET pending ELSE {{}} :
              /\ work' = [work EXCEPT ![Scheduler].dispatched = TRUE,
                                      ![Scheduler].delivered = done]
              /\ sent' = sent \cup {Key(all[k]) : k \in done}
        /\ UNCHANGED <<now, close, rows, stage, clean, failures>>

CommitAlerts ==
    LET all == alerts \o Session.raised
    IN  /\ Alerting
        /\ Session.dispatched
        /\ theses' = [i \in DOMAIN theses |->
                         IF i \in Session.stopped
                         THEN [theses[i] EXCEPT !.status = "INVALIDATED"] ELSE theses[i]]
        /\ alerts' = [k \in DOMAIN all |->
                         [all[k] EXCEPT !.notified = @ \/ k \in Session.delivered]]
        /\ work' = [work EXCEPT ![Scheduler] = NoWork]
        /\ Stepped(Scheduler)
        /\ UNCHANGED <<now, close, versions, calls, sent, clean, failures>>

------------------------------------------------------------------------------
(* Grading: nobody else writes an outcome, so the session is one step. *)

DueDay(c) == c.day + Horizon[c.strategy]

\* A call for a decline is judged on the decline.
Gain(c, exit) ==
    IF c.direction = "SHORT" \/ c.action = "SELL" THEN c.entry - exit ELSE exit - c.entry

Judged(c) ==
    LET entry == IF c.entry # None THEN c.entry ELSE PriceOn(c.ticker, c.day)
        exit == PriceOn(c.ticker, DueDay(c))
    IN  IF entry = None \/ exit = None
        THEN [c EXCEPT !.outcome = "NO_DATA"]
        ELSE [c EXCEPT !.outcome = "GRADED", !.gain = Gain([c EXCEPT !.entry = entry], exit)]

\* Mutants: every due call is graded, again and again; or only an overdue one.
AgainDue(c) == DueDay(c) <= now
OverDue(c) == c.outcome = "OPEN" /\ DueDay(c) < now

Due(c) == c.outcome = "OPEN" /\ DueDay(c) <= now

Grade ==
    /\ stage = "grade"
    /\ calls' = [k \in DOMAIN calls |-> IF Due(calls[k]) THEN Judged(calls[k]) ELSE calls[k]]
    /\ Stepped(Scheduler)
    /\ UNCHANGED <<now, close, theses, versions, alerts, sent, work, clean, failures>>

------------------------------------------------------------------------------

Init ==
    /\ now = 0
    /\ close = [t \in Tickers |-> [d \in Days |-> None]]
    /\ theses = <<>>
    /\ versions = {}
    /\ calls = <<>>
    /\ alerts = <<>>
    /\ sent = {}
    /\ stage = "idle"
    /\ work = [w \in Workers |-> NoWork]
    /\ clean = TRUE
    /\ failures = 0

ResearchStep(w) ==
    \/ \E names \in SUBSET Tickers : BeginResearch(w, names)
    \/ \E t \in Tickers, a \in Analyses : Consider(w, t, a)
    \/ OpenThesis(w)
    \/ CommitResearch(w)

AlertStep ==
    \/ BeginAlerts
    \/ \E i \in 1..MaxCalls : CheckThesis(i)
    \/ Dispatch
    \/ CommitAlerts

WeeklyStep == StartWeekly \/ ResearchStep(Scheduler) \/ AlertStep \/ Grade

Next ==
    \/ NextDay
    \/ \E t \in Tickers, d \in Days, p \in Prices : StoreBar(t, d, p)
    \/ WeeklyStep
    \/ ResearchStep(Visitor)
    \/ \E w \in Workers : Fail(w)
    \/ Crash

Spec == Init /\ [][Next]_vars

\* The scheduler starts the job week after week, and a step of it ends.
FairSpec == Spec /\ WF_vars(WeeklyStep)

------------------------------------------------------------------------------
(* Properties. *)

WorkOK(w) ==
    \/ work[w] = NoWork
    \/ /\ work[w].kind = "research"
       /\ work[w].todo \subseteq Tickers
       /\ \A k \in DOMAIN work[w].opened : work[w].opened[k] \in Thesis
       /\ \A k \in DOMAIN work[w].updated :
             work[w].updated[k] \in [id : DOMAIN theses, was : Thesis, now : Thesis]
       /\ \A k \in DOMAIN work[w].said : work[w].said[k] \in Call
    \/ /\ work[w].kind = "alerts"
       /\ w = Scheduler /\ stage = "alerts"
       /\ work[w].todo \cup work[w].stopped \subseteq DOMAIN theses

TypeOK ==
    /\ now \in Days
    /\ close \in [Tickers -> [Days -> {None} \cup Prices]]
    /\ Len(theses) <= MaxCalls /\ \A i \in DOMAIN theses : theses[i] \in Thesis
    /\ versions \subseteq Archived
    /\ Len(calls) + InFlight <= MaxCalls /\ \A k \in DOMAIN calls : calls[k] \in Call
    /\ \A k \in DOMAIN alerts : alerts[k] \in Alert
    /\ stage \in Stages
    /\ \A w \in Workers : WorkOK(w)
    /\ clean \in BOOLEAN
    /\ failures \in 0..MaxFailures

\* "Created once per (ticker, direction)": as long as no two sessions overlapped,
\* a name has at most one open thesis in each direction.
OneOpenThesis ==
    clean => \A i, j \in DOMAIN theses :
        /\ theses[i].status \in Open /\ theses[j].status \in Open
        /\ theses[i].ticker = theses[j].ticker /\ theses[i].direction = theses[j].direction
        => i = j

\* A thesis that was disproved stays so: a later week opens a new one.
DisprovedStays ==
    [][clean => \A i \in DOMAIN theses : theses[i].status = "INVALIDATED" =>
          theses'[i].status = "INVALIDATED"]_vars

\* Whatever sessions overlap, levels are never lost: what an update replaces is
\* archived under the version it had.
LevelsArchived ==
    [][\A i \in DOMAIN theses : theses'[i].levels # theses[i].levels =>
          [thesis |-> i, version |-> theses[i].version, levels |-> theses[i].levels]
              \in versions']_vars

\* "Graded once and then left alone", and what was said is never edited.
VerdictStands ==
    [][\A k \in DOMAIN calls :
          /\ [calls'[k] EXCEPT !.outcome = "OPEN", !.gain = 0]
                = [calls[k] EXCEPT !.outcome = "OPEN", !.gain = 0]
          /\ calls[k].outcome # "OPEN" => calls'[k] = calls[k]]_vars

\* The same alert is not raised twice within the days of _exists, crashes,
\* failed steps and repeated runs included.
AlertsNotRepeated ==
    \A k, l \in DOMAIN alerts :
        /\ k < l
        /\ alerts[k].type = alerts[l].type /\ alerts[k].ticker = alerts[l].ticker
        => alerts[l].day - alerts[k].day > DedupeDays

\* An alert marked as notified did reach a channel: a rollback may repeat a
\* notification, it never loses one.
NotifiedWasSent ==
    \A k \in DOMAIN alerts : alerts[k].notified => Key(alerts[k]) \in sent

\* Every recommendation whose horizon has passed is graded or closed in the end,
\* in spite of failed steps, crashes and visitors.
CallsAreJudged ==
    \A k \in 1..MaxCalls :
        k \in DOMAIN calls /\ DueDay(calls[k]) <= now
            ~> k \in DOMAIN calls /\ calls[k].outcome # "OPEN"
==============================================================================
