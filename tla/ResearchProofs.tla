---------------------------- MODULE ResearchProofs ----------------------------
(***************************************************************************)
(* Alerts are raised once and notified truthfully; a thesis stays single,  *)
(* disproved and archived, and a verdict stands: for any number of names,  *)
(* weeks, failures and theses, and whatever the analysts conclude.         *)
(***************************************************************************)
EXTENDS Research, TLAPS

(***************************************************************************)
(* What the rows hold, prices above all, is of no matter here: a sequence  *)
(* is a sequence over some set.                                            *)
(***************************************************************************)
IsSeq(s) == \E S : s \in Seq(S)

LEMMA SeqFacts ==
    ASSUME NEW s, IsSeq(s)
    PROVE  Len(s) \in Nat /\ DOMAIN s = 1..Len(s)
  BY DEF IsSeq

LEMMA EmptyIsSeq == IsSeq(<<>>) /\ Len(<<>>) = 0
<1>1. <<>> \in Seq({})  OBVIOUS
<1> QED  BY <1>1 DEF IsSeq

LEMMA SingleIsSeq ==
    ASSUME NEW e
    PROVE  IsSeq(<<e>>) /\ Len(<<e>>) = 1 /\ <<e>>[1] = e
<1>1. <<e>> \in Seq({e})  OBVIOUS
<1> QED  BY <1>1 DEF IsSeq

LEMMA Joined ==
    ASSUME NEW s, NEW t, IsSeq(s), IsSeq(t)
    PROVE  /\ IsSeq(s \o t)
           /\ Len(s \o t) = Len(s) + Len(t)
           /\ \A i \in 1..Len(s) + Len(t) :
                 (s \o t)[i] = IF i <= Len(s) THEN s[i] ELSE t[i - Len(s)]
<1>1. PICK S : s \in Seq(S)  BY DEF IsSeq
<1>2. PICK T : t \in Seq(T)  BY DEF IsSeq
<1>3. s \in Seq(S \cup T) /\ t \in Seq(S \cup T)  BY <1>1, <1>2
<1>4. s \o t \in Seq(S \cup T)  BY <1>3
<1> QED  BY <1>3, <1>4 DEF IsSeq

LEMMA Appended ==
    ASSUME NEW s, NEW e, IsSeq(s)
    PROVE  /\ IsSeq(Append(s, e))
           /\ Len(Append(s, e)) = Len(s) + 1
           /\ \A i \in 1..Len(s) : Append(s, e)[i] = s[i]
           /\ Append(s, e)[Len(s) + 1] = e
<1>1. PICK S : s \in Seq(S)  BY DEF IsSeq
<1>2. s \in Seq(S \cup {e})  BY <1>1
<1>3. Append(s, e) \in Seq(S \cup {e})  BY <1>2
<1> QED  BY <1>2, <1>3 DEF IsSeq

\* A sequence rewritten element by element.
LEMMA Rewritten ==
    ASSUME NEW s, NEW t, IsSeq(s), t = [k \in DOMAIN s |-> t[k]]
    PROVE  IsSeq(t) /\ Len(t) = Len(s)
<1> DEFINE S == {t[k] : k \in DOMAIN s}
<1>1. Len(s) \in Nat /\ DOMAIN s = 1..Len(s)  BY SeqFacts
<1>2. t \in [1..Len(s) -> S]  BY <1>1
<1>3. t \in Seq(S)  BY <1>1, <1>2
<1>4. DOMAIN t = 1..Len(t) /\ Len(t) \in Nat  BY <1>3
<1>5. DOMAIN t = 1..Len(s)  BY <1>1
<1>6. Len(t) = Len(s)  BY <1>1, <1>4, <1>5
<1> QED  BY <1>3, <1>6 DEF IsSeq

------------------------------------------------------------------------------
(* Sessions: none, research, or the weekly job's alerts.                   *)

ResearchFields == {"kind", "day", "todo", "looking", "base", "opened", "updated", "said"}
AlertFields == {"kind", "day", "read", "raised", "stopped", "todo", "dispatched", "delivered"}

ResearchSession(r) ==
    /\ DOMAIN r = ResearchFields /\ r.kind = "research"
    /\ IsSeq(r.opened) /\ IsSeq(r.updated) /\ IsSeq(r.said)

AlertSession(r) == DOMAIN r = AlertFields /\ r.kind = "alerts"

WorkInv ==
    /\ work = [w \in Workers |-> work[w]]
    /\ \A w \in Workers : \/ work[w] = NoWork
                          \/ ResearchSession(work[w])
                          \/ w = Scheduler /\ AlertSession(work[w])

\* A step by one worker leaves the other's session alone.
OneWorks(w) == work' = [work EXCEPT ![w] = work'[w]]

LEMMA SessionKinds ==
    ASSUME WorkInv, NEW w \in Workers
    PROVE  /\ work[w].kind = "research" => ResearchSession(work[w])
           /\ work[w].kind = "alerts" => w = Scheduler /\ AlertSession(work[w])
  BY DEF WorkInv, ResearchSession, AlertSession, NoWork

(***************************************************************************)
(* What each action of research does to its session.                       *)
(***************************************************************************)
Begun(w) ==
    /\ work[w] = NoWork /\ ResearchSession(work'[w])
    /\ work'[w].opened = <<>> /\ work'[w].updated = <<>> /\ work'[w].said = <<>>
    /\ work'[w].looking = Nobody
    /\ clean' = (clean /\ \A v \in Workers : work[v] = NoWork)
    /\ UNCHANGED <<now, rows, sent>>

LEMMA BeginEffect ==
    ASSUME WorkInv, NEW w \in Workers, NEW names \in SUBSET Tickers, BeginResearch(w, names)
    PROVE  OneWorks(w) /\ Begun(w)
<1> DEFINE r == [kind |-> "research", day |-> now, todo |-> names, looking |-> Nobody,
                 base |-> 0, opened |-> <<>>, updated |-> <<>>, said |-> <<>>]
<1>1. /\ work[w] = NoWork /\ work' = [work EXCEPT ![w] = r]
      /\ clean' = (clean /\ \A v \in Workers : work[v] = NoWork)
      /\ UNCHANGED <<now, rows, sent>>
  BY DEF BeginResearch, OpenSession, Busy
<1>2. ResearchSession(r) /\ r.opened = <<>> /\ r.updated = <<>> /\ r.said = <<>>
         /\ r.looking = Nobody
  BY EmptyIsSeq DEF ResearchSession, ResearchFields
<1> HIDE DEF r
<1>3. work'[w] = r /\ OneWorks(w)  BY <1>1 DEF WorkInv, OneWorks
<1> QED  BY <1>1, <1>2, <1>3 DEF Begun

Looked(w, t, a) ==
    LET row == Row(t, a, work[w].day)
    IN  /\ Existing(row) = {}
        /\ work'[w].looking = [ticker |-> t, row |-> row, action |-> a.action]
        /\ work'[w].todo = work[w].todo /\ work'[w].base = work[w].base
        /\ work'[w].updated = work[w].updated /\ work'[w].said = work[w].said

Found(w, t, a, i) ==
    LET row == Row(t, a, work[w].day)
    IN  /\ i \in Existing(row)
        /\ work'[w].todo = work[w].todo \ {t}
        /\ work'[w].updated = Append(work[w].updated,
                [id |-> i, was |-> theses[i],
                 now |-> [row EXCEPT !.version = theses[i].version + 1]])
        /\ work'[w].said = Append(work[w].said, Said(row, a.action, i, work[w].day))
        /\ work'[w].looking = work[w].looking /\ work'[w].base = work[w].base

LEMMA ConsiderEffect ==
    ASSUME WorkInv, NEW w \in Workers, NEW t \in Tickers, NEW a \in Analyses, Consider(w, t, a)
    PROVE  /\ OneWorks(w) /\ ResearchSession(work[w]) /\ ResearchSession(work'[w])
           /\ UNCHANGED <<now, rows, sent, clean>>
           /\ work[w].looking = Nobody /\ t \in work[w].todo
           /\ work'[w].opened = work[w].opened
           /\ Looked(w, t, a) \/ \E i \in Existing(Row(t, a, work[w].day)) : Found(w, t, a, i)
<1> DEFINE row == Row(t, a, work[w].day)
<1>1. /\ Researching(w) /\ work[w].looking = Nobody /\ t \in work[w].todo
      /\ UNCHANGED <<now, rows, sent, clean>>
  BY DEF Consider
<1>2. ResearchSession(work[w])  BY <1>1, SessionKinds DEF Researching
<1>3. CASE Existing(row) = {}
  <2> DEFINE x == [ticker |-> t, row |-> row, action |-> a.action]
  <2>1. work' = [work EXCEPT ![w].looking = x]  BY <1>3 DEF Consider
  <2> HIDE DEF x, row
  <2>2. OneWorks(w) /\ work'[w] = [work[w] EXCEPT !.looking = x]
    BY <2>1 DEF WorkInv, OneWorks
  <2>3. /\ ResearchSession(work'[w])
        /\ work'[w].looking = x /\ work'[w].todo = work[w].todo /\ work'[w].base = work[w].base
        /\ work'[w].updated = work[w].updated /\ work'[w].said = work[w].said
        /\ work'[w].opened = work[w].opened
    BY <1>2, <2>2 DEF ResearchSession, ResearchFields
  <2> QED  BY <1>1, <1>2, <1>3, <2>2, <2>3 DEF Looked, x, row
<1>4. CASE Existing(row) # {}
  <2> DEFINE u(i) == [id |-> i, was |-> theses[i],
                      now |-> [row EXCEPT !.version = theses[i].version + 1]]
             c(i) == Said(row, a.action, i, work[w].day)
  <2>1. PICK i \in Existing(row) :
          work' = [work EXCEPT ![w].todo = @ \ {t}, ![w].updated = Append(@, u(i)),
                               ![w].said = Append(@, c(i))]
    BY <1>4 DEF Consider
  <2> DEFINE todo == work[w].todo \ {t}
             updated == Append(work[w].updated, u(i))
             said == Append(work[w].said, c(i))
  <2>2. work' = [work EXCEPT ![w].todo = todo, ![w].updated = updated, ![w].said = said]
    BY <2>1
  <2>3. IsSeq(updated) /\ IsSeq(said)  BY <1>2, Appended DEF ResearchSession
  <2> HIDE DEF todo, updated, said, row, u, c
  <2>4. OneWorks(w) /\ work'[w] = [work[w] EXCEPT !.todo = todo, !.updated = updated, !.said = said]
    BY <2>2 DEF WorkInv, OneWorks
  <2>5. /\ ResearchSession(work'[w])
        /\ work'[w].todo = todo /\ work'[w].updated = updated /\ work'[w].said = said
        /\ work'[w].looking = work[w].looking /\ work'[w].base = work[w].base
        /\ work'[w].opened = work[w].opened
    BY <1>2, <2>3, <2>4 DEF ResearchSession, ResearchFields
  <2>6. Found(w, t, a, i)  BY <2>1, <2>5 DEF Found, todo, updated, said, u, c, row
  <2> QED  BY <1>1, <1>2, <2>1, <2>4, <2>5, <2>6 DEF row
<1> QED  BY <1>3, <1>4

Opened(w) ==
    LET found == work[w].looking
    IN  /\ found # Nobody
        /\ work'[w].todo = work[w].todo \ {found.ticker}
        /\ work'[w].looking = Nobody
        /\ work'[w].base = Len(theses)
        /\ work'[w].opened = Append(work[w].opened, found.row)
        /\ work'[w].said = Append(work[w].said, Said(found.row, found.action,
                                Len(theses) + Len(work[w].opened) + 1, work[w].day))
        /\ work'[w].updated = work[w].updated

LEMMA OpenEffect ==
    ASSUME WorkInv, NEW w \in Workers, OpenThesis(w)
    PROVE  /\ OneWorks(w) /\ ResearchSession(work[w]) /\ ResearchSession(work'[w])
           /\ UNCHANGED <<now, rows, sent, clean>>
           /\ Opened(w)
<1> DEFINE found == work[w].looking
           todo == work[w].todo \ {found.ticker}
           base == Len(theses)
           opened == Append(work[w].opened, found.row)
           said == Append(work[w].said, Said(found.row, found.action,
                       Len(theses) + Len(work[w].opened) + 1, work[w].day))
<1>1. /\ Researching(w) /\ found # Nobody /\ UNCHANGED <<now, rows, sent, clean>>
      /\ work' = [work EXCEPT ![w].todo = todo, ![w].looking = Nobody, ![w].base = base,
                              ![w].opened = opened, ![w].said = said]
  BY DEF OpenThesis
<1>2. ResearchSession(work[w])  BY <1>1, SessionKinds DEF Researching
<1>3. IsSeq(opened) /\ IsSeq(said)  BY <1>2, Appended DEF ResearchSession
<1> HIDE DEF todo, base, opened, said
<1>4. /\ OneWorks(w)
      /\ work'[w] = [work[w] EXCEPT !.todo = todo, !.looking = Nobody, !.base = base,
                                    !.opened = opened, !.said = said]
  BY <1>1 DEF WorkInv, OneWorks
<1>5. /\ ResearchSession(work'[w])
      /\ work'[w].todo = todo /\ work'[w].looking = Nobody /\ work'[w].base = base
      /\ work'[w].opened = opened /\ work'[w].said = said
      /\ work'[w].updated = work[w].updated
  BY <1>2, <1>3, <1>4 DEF ResearchSession, ResearchFields
<1> QED  BY <1>1, <1>2, <1>4, <1>5 DEF Opened, todo, base, opened, said

LEMMA CommitEffect ==
    ASSUME WorkInv, NEW w \in Workers, CommitResearch(w)
    PROVE  /\ OneWorks(w) /\ ResearchSession(work[w]) /\ work'[w] = NoWork
           /\ UNCHANGED <<now, alerts, sent, clean>>
<1>1. Researching(w) /\ work' = [work EXCEPT ![w] = NoWork] /\ UNCHANGED <<now, alerts, sent, clean>>
  BY DEF CommitResearch, rows
<1> QED  BY <1>1, SessionKinds DEF Researching, WorkInv, OneWorks

LEMMA ResearchEffects ==
    ASSUME WorkInv, NEW w \in Workers, ResearchStep(w)
    PROVE  /\ OneWorks(w)
           /\ work'[w] = NoWork \/ ResearchSession(work'[w])
           /\ work[w] = NoWork \/ ResearchSession(work[w])
           /\ UNCHANGED <<now, alerts, sent>>
  BY BeginEffect, ConsiderEffect, OpenEffect, CommitEffect DEF ResearchStep, Begun, rows

(***************************************************************************)
(* What each action of the alert step does.                                *)
(***************************************************************************)
LEMMA BeginAlertsEffect ==
    ASSUME WorkInv, BeginAlerts
    PROVE  /\ OneWorks(Scheduler) /\ AlertSession(work'[Scheduler])
           /\ work'[Scheduler].raised = <<>> /\ work'[Scheduler].delivered = {}
           /\ clean' = (clean /\ \A v \in Workers : work[v] = NoWork)
           /\ UNCHANGED <<now, rows, sent>>
<1> DEFINE r == [kind |-> "alerts", day |-> now, read |-> theses, raised |-> <<>>,
                 stopped |-> {}, todo |-> {i \in DOMAIN theses : theses[i].status # "INVALIDATED"},
                 dispatched |-> FALSE, delivered |-> {}]
<1>1. /\ work' = [work EXCEPT ![Scheduler] = r]
      /\ clean' = (clean /\ \A v \in Workers : work[v] = NoWork)
      /\ UNCHANGED <<now, rows, sent>>
  BY DEF BeginAlerts, OpenSession, Busy
<1>2. AlertSession(r) /\ r.raised = <<>> /\ r.delivered = {}  BY DEF AlertSession, AlertFields
<1> HIDE DEF r
<1>3. work'[Scheduler] = r /\ OneWorks(Scheduler)  BY <1>1 DEF WorkInv, OneWorks, Workers
<1> QED  BY <1>1, <1>2, <1>3

\* Which of the two alerts a check of thesis i raises.
Wins(i) ==
    /\ TargetReached(Session.read[i].direction, Session.read[i].levels,
                     PriceOn(Session.read[i].ticker, Session.day))
    /\ ~ Exists("PRICE_TARGET", Session.read[i].ticker)
Fails(i) ==
    /\ Breached(Session.read[i].direction, Session.read[i].levels,
                PriceOn(Session.read[i].ticker, Session.day))
    /\ ~ Exists("THESIS_INVALIDATED", Session.read[i].ticker)
NewAlert(b, type, i) == IF b THEN <<Raised(type, Session.read[i].ticker)>> ELSE <<>>

LEMMA CheckEffect ==
    ASSUME WorkInv, NEW i \in 1..MaxCalls, CheckThesis(i)
    PROVE  /\ OneWorks(Scheduler) /\ AlertSession(Session) /\ AlertSession(work'[Scheduler])
           /\ work'[Scheduler].raised = Session.raised \o NewAlert(Wins(i), "PRICE_TARGET", i)
                                            \o NewAlert(Fails(i), "THESIS_INVALIDATED", i)
           /\ work'[Scheduler].delivered = Session.delivered
           /\ UNCHANGED <<now, rows, sent, clean>>
<1> DEFINE todo == Session.todo \ {i}
           raised == Session.raised \o NewAlert(Wins(i), "PRICE_TARGET", i)
                                    \o NewAlert(Fails(i), "THESIS_INVALIDATED", i)
           stopped == IF Fails(i) THEN Session.stopped \cup {i} ELSE Session.stopped
<1>1. /\ Alerting /\ UNCHANGED <<now, rows, sent, clean>>
      /\ work' = [work EXCEPT ![Scheduler].todo = todo, ![Scheduler].raised = raised,
                              ![Scheduler].stopped = stopped]
  BY DEF CheckThesis, Session, Wins, Fails, NewAlert
<1>2. AlertSession(Session)  BY <1>1, SessionKinds DEF Alerting, Session, Workers
<1> HIDE DEF todo, raised, stopped
<1>3. /\ OneWorks(Scheduler)
      /\ work'[Scheduler] = [Session EXCEPT !.todo = todo, !.raised = raised, !.stopped = stopped]
  BY <1>1 DEF WorkInv, OneWorks, Session, Workers
<1>4. /\ AlertSession(work'[Scheduler]) /\ work'[Scheduler].raised = raised
      /\ work'[Scheduler].delivered = Session.delivered
  BY <1>2, <1>3 DEF AlertSession, AlertFields
<1> QED  BY <1>1, <1>2, <1>3, <1>4 DEF raised

LEMMA DispatchEffect ==
    ASSUME WorkInv, Dispatch
    PROVE  /\ OneWorks(Scheduler) /\ AlertSession(Session) /\ AlertSession(work'[Scheduler])
           /\ work'[Scheduler].raised = Session.raised
           /\ work'[Scheduler].delivered \subseteq DOMAIN (alerts \o Session.raised)
           /\ sent' = sent \cup {Key((alerts \o Session.raised)[k]) :
                                    k \in work'[Scheduler].delivered}
           /\ UNCHANGED <<now, rows, clean>>
<1> DEFINE all == alerts \o Session.raised
<1>1. Alerting /\ UNCHANGED <<now, rows, clean>>  BY DEF Dispatch
<1>2. PICK done \in SUBSET DOMAIN all :
        /\ work' = [work EXCEPT ![Scheduler].dispatched = TRUE, ![Scheduler].delivered = done]
        /\ sent' = sent \cup {Key(all[k]) : k \in done}
  BY DEF Dispatch
<1>3. AlertSession(Session)  BY <1>1, SessionKinds DEF Alerting, Session, Workers
<1> HIDE DEF all
<1>4. /\ OneWorks(Scheduler)
      /\ work'[Scheduler] = [Session EXCEPT !.dispatched = TRUE, !.delivered = done]
  BY <1>2 DEF WorkInv, OneWorks, Session, Workers
<1>5. /\ AlertSession(work'[Scheduler]) /\ work'[Scheduler].raised = Session.raised
      /\ work'[Scheduler].delivered = done
  BY <1>3, <1>4 DEF AlertSession, AlertFields
<1> QED  BY <1>1, <1>2, <1>3, <1>4, <1>5 DEF all

LEMMA CommitAlertsEffect ==
    ASSUME WorkInv, CommitAlerts
    PROVE  /\ OneWorks(Scheduler) /\ AlertSession(Session) /\ work'[Scheduler] = NoWork
           /\ UNCHANGED <<now, versions, calls, sent, clean>>
<1>1. /\ Alerting /\ work' = [work EXCEPT ![Scheduler] = NoWork]
      /\ UNCHANGED <<now, versions, calls, sent, clean>>
  BY DEF CommitAlerts
<1> QED  BY <1>1, SessionKinds DEF Alerting, Session, Workers, WorkInv, OneWorks

LEMMA AlertEffects ==
    ASSUME WorkInv, AlertStep
    PROVE  /\ OneWorks(Scheduler)
           /\ work'[Scheduler] = NoWork \/ AlertSession(work'[Scheduler])
  BY BeginAlertsEffect, CheckEffect, DispatchEffect, CommitAlertsEffect DEF AlertStep

\* Every other step leaves the rows, and ends sessions at most.
LEMMA IdleEffects ==
    ASSUME WorkInv, [Next]_vars,
           ~ \E w \in Workers : ResearchStep(w), ~ AlertStep, ~ Grade
    PROVE  /\ UNCHANGED <<theses, versions, calls, alerts, sent>>
           /\ \A w \in Workers : work'[w] = work[w] \/ work'[w] = NoWork
           /\ work' = [w \in Workers |-> work'[w]]
           /\ clean' = clean
           /\ \/ now' = now
              \/ now' = now + 1 /\ \A w \in Workers : work[w] = NoWork
<1>1. CASE NextDay  BY <1>1 DEF NextDay, Quiet, Busy, WorkInv, rows
<1>2. ASSUME NEW t \in Tickers, NEW d \in Days, NEW p \in Prices, StoreBar(t, d, p)
      PROVE  UNCHANGED <<now, rows, sent, work, clean>>
  BY <1>2 DEF StoreBar, rows
<1>3. CASE StartWeekly  BY <1>3 DEF StartWeekly, WorkInv, rows
<1>4. ASSUME NEW w \in Workers, Fail(w)
      PROVE  /\ UNCHANGED <<now, rows, sent, clean>>
             /\ work' = [work EXCEPT ![w] = NoWork]
  BY <1>4 DEF Fail, rows
<1>5. CASE Crash  BY <1>5 DEF Crash, WorkInv, rows
<1>6. CASE UNCHANGED vars  BY <1>6 DEF vars, rows, WorkInv
<1> QED
  BY <1>1, <1>2, <1>3, <1>4, <1>5, <1>6
  DEF Next, WeeklyStep, Workers, WorkInv, rows

LEMMA GradeEffects ==
    ASSUME Grade
    PROVE  UNCHANGED <<now, theses, versions, alerts, sent, work, clean>>
  BY DEF Grade

LEMMA WorkInvStep == WorkInv /\ [Next]_vars => WorkInv'
<1> SUFFICES ASSUME WorkInv, [Next]_vars PROVE WorkInv'  OBVIOUS
<1>1. CASE \E w \in Workers : ResearchStep(w)
  BY <1>1, ResearchEffects DEF WorkInv, OneWorks
<1>2. CASE AlertStep  BY <1>2, AlertEffects DEF WorkInv, OneWorks
<1>3. CASE Grade  BY <1>3, GradeEffects DEF WorkInv
<1>4. CASE ~ (\E w \in Workers : ResearchStep(w)) /\ ~ AlertStep /\ ~ Grade
  BY <1>4, IdleEffects DEF WorkInv
<1> QED  BY <1>1, <1>2, <1>3, <1>4

------------------------------------------------------------------------------
(* Alerts.  The rows of alerts and those the open session adds to them are *)
(* one sequence, which keeps its distances, and what it marks was sent.    *)

IsAlert(a) ==
    /\ DOMAIN a = {"type", "ticker", "day", "notified"}
    /\ a.day \in 0..now
    /\ a.notified \in BOOLEAN

Apart(s) ==
    \A k, l \in DOMAIN s :
        k < l /\ s[k].type = s[l].type /\ s[k].ticker = s[l].ticker
        => s[l].day - s[k].day > DedupeDays

Truthful == \A k \in DOMAIN alerts : alerts[k].notified => Key(alerts[k]) \in sent

\* What holds of the alerts raised so far, r, by the open session.
Fresh(r) ==
    /\ IsSeq(r)
    /\ \A k \in DOMAIN r : IsAlert(r[k]) /\ ~ r[k].notified
    /\ Apart(alerts \o r)

SessionAlerts ==
    /\ Fresh(Session.raised)
    /\ \A k \in Session.delivered : /\ k \in DOMAIN (alerts \o Session.raised)
                                    /\ Key((alerts \o Session.raised)[k]) \in sent

AlertInv ==
    /\ WorkInv
    /\ now \in Nat
    /\ IsSeq(alerts)
    /\ \A k \in DOMAIN alerts : IsAlert(alerts[k])
    /\ Apart(alerts)
    /\ Truthful
    /\ AlertSession(Session) => SessionAlerts

LEMMA BoundTypes == DedupeDays \in Nat /\ LastDay \in Nat
  BY ResearchAssumption

\* An alert of a kind that was not raised in the days before may join.
LEMMA MayRaise ==
    ASSUME AlertInv, NEW r, Fresh(r), NEW type, NEW t,
           \A k \in DOMAIN (alerts \o r) :
              LET a == (alerts \o r)[k]
              IN  ~ (a.type = type /\ a.ticker = t /\ a.day >= now - DedupeDays)
    PROVE  Fresh(r \o <<Raised(type, t)>>)
<1> DEFINE e == Raised(type, t)
           s == alerts \o r
<1>1. /\ e.type = type /\ e.ticker = t /\ e.day = now /\ ~ e.notified /\ IsAlert(e)
      /\ now \in Nat
  BY DEF Raised, IsAlert, AlertInv
<1> HIDE DEF e
<1>2. IsSeq(r) /\ IsSeq(alerts) /\ IsSeq(<<e>>) /\ Len(<<e>>) = 1 /\ <<e>>[1] = e
  BY SingleIsSeq DEF Fresh, AlertInv
<1>3. /\ Len(r) \in Nat /\ DOMAIN r = 1..Len(r)
      /\ Len(alerts) \in Nat /\ DOMAIN alerts = 1..Len(alerts)
  BY <1>2, SeqFacts
<1>4. /\ IsSeq(r \o <<e>>) /\ Len(r \o <<e>>) = Len(r) + 1
      /\ \A k \in 1..Len(r) : (r \o <<e>>)[k] = r[k]
      /\ (r \o <<e>>)[Len(r) + 1] = e
  BY <1>2, <1>3, Joined
<1>5. /\ IsSeq(s) /\ Len(s) = Len(alerts) + Len(r)
      /\ \A k \in 1..Len(s) : s[k] = IF k <= Len(alerts) THEN alerts[k] ELSE r[k - Len(alerts)]
  BY <1>2, Joined
<1> DEFINE n == alerts \o (r \o <<e>>)
<1>6. /\ IsSeq(n) /\ Len(n) = Len(alerts) + (Len(r) + 1)
      /\ \A k \in 1..Len(n) : n[k] = IF k <= Len(alerts) THEN alerts[k]
                                     ELSE (r \o <<e>>)[k - Len(alerts)]
  BY <1>2, <1>4, Joined
<1> HIDE DEF s, n
<1>7. /\ DOMAIN s = 1..Len(s) /\ DOMAIN n = 1..Len(s) + 1 /\ Len(s) \in Nat
      /\ DOMAIN (r \o <<e>>) = 1..Len(r) + 1
  BY <1>3, <1>4, <1>5, <1>6, SeqFacts
<1>8. /\ \A k \in 1..Len(s) : n[k] = s[k]
      /\ n[Len(s) + 1] = e
  <2>1. ASSUME NEW k \in 1..Len(s) PROVE n[k] = s[k]
    <3>1. CASE k <= Len(alerts)  BY <3>1, <1>3, <1>5, <1>6, <1>7
    <3>2. CASE ~ k <= Len(alerts)
      <4>1. k - Len(alerts) \in 1..Len(r)  BY <3>2, <1>3, <1>5
      <4> QED  BY <3>2, <4>1, <1>3, <1>4, <1>5, <1>6, <1>7
    <3> QED  BY <3>1, <3>2
  <2>2. n[Len(s) + 1] = e  BY <1>3, <1>4, <1>5, <1>6
  <2> QED  BY <2>1, <2>2
<1>9. \A k \in DOMAIN s : s[k].day \in 0..now
  BY <1>3, <1>5, <1>7 DEF AlertInv, Fresh, IsAlert
<1>10. Apart(n)
  <2> SUFFICES ASSUME NEW k \in DOMAIN n, NEW l \in DOMAIN n, k < l,
                      n[k].type = n[l].type, n[k].ticker = n[l].ticker
               PROVE  n[l].day - n[k].day > DedupeDays
    BY DEF Apart
  <2>1. CASE l = Len(s) + 1
    <3>1. k \in DOMAIN s /\ n[k] = s[k] /\ n[l] = e  BY <2>1, <1>7, <1>8
    <3>2. ~ s[k].day >= now - DedupeDays  BY <3>1, <1>1 DEF s
    <3> QED  BY <3>1, <3>2, <1>1, <1>9, BoundTypes
  <2>2. CASE l # Len(s) + 1
    <3>1. k \in DOMAIN s /\ l \in DOMAIN s /\ n[k] = s[k] /\ n[l] = s[l]
      BY <2>2, <1>7, <1>8
    <3> QED  BY <3>1 DEF Fresh, Apart, s
  <2> QED  BY <2>1, <2>2
<1>11. \A k \in DOMAIN (r \o <<e>>) : IsAlert((r \o <<e>>)[k]) /\ ~ (r \o <<e>>)[k].notified
  BY <1>1, <1>3, <1>4, <1>7 DEF Fresh
<1> QED  BY <1>4, <1>10, <1>11 DEF Fresh, n, e

\* What follows a sequence does not move it.
LEMMA Prefixed ==
    ASSUME NEW s, NEW r, NEW x, IsSeq(s), IsSeq(r), IsSeq(x)
    PROVE  \A k \in DOMAIN (s \o r) : /\ k \in DOMAIN (s \o (r \o x))
                                     /\ (s \o (r \o x))[k] = (s \o r)[k]
<1>1. /\ Len(s) \in Nat /\ Len(r) \in Nat /\ Len(x) \in Nat  BY SeqFacts
<1>2. /\ IsSeq(s \o r) /\ Len(s \o r) = Len(s) + Len(r)
      /\ \A k \in 1..Len(s) + Len(r) : (s \o r)[k] = IF k <= Len(s) THEN s[k] ELSE r[k - Len(s)]
  BY Joined
<1>3. /\ IsSeq(r \o x) /\ Len(r \o x) = Len(r) + Len(x)
      /\ \A k \in 1..Len(r) : (r \o x)[k] = r[k]
  BY <1>1, Joined
<1>4. /\ IsSeq(s \o (r \o x)) /\ Len(s \o (r \o x)) = Len(s) + (Len(r) + Len(x))
      /\ \A k \in 1..Len(s) + (Len(r) + Len(x)) :
            (s \o (r \o x))[k] = IF k <= Len(s) THEN s[k] ELSE (r \o x)[k - Len(s)]
  BY <1>3, Joined
<1>5. /\ DOMAIN (s \o r) = 1..Len(s) + Len(r)
      /\ DOMAIN (s \o (r \o x)) = 1..Len(s) + (Len(r) + Len(x))
  BY <1>2, <1>4, SeqFacts
<1> SUFFICES ASSUME NEW k \in 1..Len(s) + Len(r)
             PROVE  k \in 1..Len(s) + (Len(r) + Len(x)) /\ (s \o (r \o x))[k] = (s \o r)[k]
  BY <1>5
<1>6. k \in 1..Len(s) + (Len(r) + Len(x))  BY <1>1
<1>7. CASE k <= Len(s)  BY <1>2, <1>4, <1>6, <1>7
<1>8. CASE ~ k <= Len(s)
  <2>1. k - Len(s) \in 1..Len(r)  BY <1>1, <1>8
  <2> QED  BY <1>2, <1>3, <1>4, <1>6, <1>8, <2>1
<1> QED  BY <1>6, <1>7, <1>8

\* A check raises each kind at most once, and not what exists already.
LEMMA CheckFresh ==
    ASSUME AlertInv, AlertSession(Session), NEW i
    PROVE  LET x == NewAlert(Wins(i), "PRICE_TARGET", i)
               y == NewAlert(Fails(i), "THESIS_INVALIDATED", i)
           IN  /\ Fresh(Session.raised \o x \o y)
               /\ \A k \in DOMAIN (alerts \o Session.raised) :
                     /\ k \in DOMAIN (alerts \o (Session.raised \o x \o y))
                     /\ (alerts \o (Session.raised \o x \o y))[k]
                           = (alerts \o Session.raised)[k]
<1> DEFINE t == Session.read[i].ticker
           r == Session.raised
           x == NewAlert(Wins(i), "PRICE_TARGET", i)
           y == NewAlert(Fails(i), "THESIS_INVALIDATED", i)
           Clear(s, type) == \A k \in DOMAIN (alerts \o s) :
                                LET a == (alerts \o s)[k]
                                IN  ~ (a.type = type /\ a.ticker = t /\ a.day >= now - DedupeDays)
<1>1. Fresh(r)  BY DEF AlertInv, SessionAlerts
<1>2. /\ Wins(i) => Clear(r, "PRICE_TARGET")
      /\ Fails(i) => Clear(r, "THESIS_INVALIDATED")
  BY DEF Wins, Fails, Exists, ToSet
<1>3. IsSeq(alerts) /\ IsSeq(r) /\ IsSeq(x) /\ IsSeq(y)
  BY <1>1, EmptyIsSeq, SingleIsSeq DEF AlertInv, Fresh, NewAlert
<1>4. Fresh(r \o x) /\ (Fails(i) => Clear(r \o x, "THESIS_INVALIDATED"))
  <2>1. CASE Wins(i)
    <3> DEFINE e == Raised("PRICE_TARGET", t)
    <3>1. x = <<e>>  BY <2>1 DEF NewAlert
    <3>2. Fresh(r \o <<e>>)  BY <1>1, <1>2, <2>1, MayRaise
    <3>3. ASSUME Fails(i) PROVE Clear(r \o <<e>>, "THESIS_INVALIDATED")
      <4>1. e.type # "THESIS_INVALIDATED"  BY DEF Raised
      <4> HIDE DEF e
      <4>2. /\ IsSeq(<<e>>) /\ Len(<<e>>) = 1 /\ <<e>>[1] = e  BY SingleIsSeq
      <4>3. /\ Len(alerts) \in Nat /\ Len(r) \in Nat  BY <1>3, SeqFacts
      <4>4. /\ IsSeq(r \o <<e>>) /\ Len(r \o <<e>>) = Len(r) + 1 /\ (r \o <<e>>)[Len(r) + 1] = e
        BY <1>3, <4>2, <4>3, Joined
      <4>5. /\ IsSeq(alerts \o (r \o <<e>>))
            /\ Len(alerts \o (r \o <<e>>)) = Len(alerts) + (Len(r) + 1)
            /\ (alerts \o (r \o <<e>>))[Len(alerts) + (Len(r) + 1)] = e
        <5>1. /\ IsSeq(alerts \o (r \o <<e>>))
              /\ Len(alerts \o (r \o <<e>>)) = Len(alerts) + (Len(r) + 1)
              /\ \A k \in 1..Len(alerts) + (Len(r) + 1) :
                    (alerts \o (r \o <<e>>))[k] = IF k <= Len(alerts) THEN alerts[k]
                                                  ELSE (r \o <<e>>)[k - Len(alerts)]
          BY <1>3, <4>4, Joined
        <5>2. Len(alerts) + (Len(r) + 1) - Len(alerts) = Len(r) + 1  BY <4>3
        <5> QED  BY <4>3, <4>4, <5>1, <5>2
      <4>6. /\ DOMAIN (alerts \o (r \o <<e>>)) = 1..Len(alerts) + (Len(r) + 1)
            /\ DOMAIN (alerts \o r) = 1..Len(alerts) + Len(r)
        BY <1>3, <4>5, SeqFacts, Joined
      <4> SUFFICES ASSUME NEW k \in 1..Len(alerts) + (Len(r) + 1)
                   PROVE  LET a == (alerts \o (r \o <<e>>))[k]
                          IN  ~ (a.type = "THESIS_INVALIDATED" /\ a.ticker = t
                                    /\ a.day >= now - DedupeDays)
        BY <4>6
      <4>7. CASE k = Len(alerts) + (Len(r) + 1)  BY <4>1, <4>5, <4>7
      <4>8. CASE k # Len(alerts) + (Len(r) + 1)
        <5>1. k \in DOMAIN (alerts \o r)  BY <4>3, <4>6, <4>8
        <5>2. (alerts \o (r \o <<e>>))[k] = (alerts \o r)[k]
          <6>1. IsSeq(alerts) /\ IsSeq(r) /\ IsSeq(<<e>>)  BY <1>3, <4>2
          <6> DEFINE z == <<e>>
          <6>2. IsSeq(z)  BY <6>1
          <6> HIDE DEF z, r
          <6>3. (alerts \o (r \o z))[k] = (alerts \o r)[k]  BY <5>1, <6>1, <6>2, Prefixed
          <6> QED  BY <6>3 DEF z
        <5> QED  BY <5>1, <5>2, <3>3, <1>2
      <4> QED  BY <4>7, <4>8
    <3> QED  BY <3>1, <3>2, <3>3
  <2>2. CASE ~ Wins(i)
    <3>1. x = <<>> /\ r \o x = r
      BY <2>2, <1>3 DEF NewAlert, IsSeq
    <3> QED  BY <3>1, <1>1, <1>2
  <2> QED  BY <2>1, <2>2
<1>5. Fresh(r \o x \o y)
  <2>1. CASE Fails(i)
    <3>1. y = <<Raised("THESIS_INVALIDATED", t)>>  BY <2>1 DEF NewAlert
    <3> QED  BY <3>1, <1>4, <2>1, MayRaise
  <2>2. CASE ~ Fails(i)
    <3>1. y = <<>>  BY <2>2 DEF NewAlert
    <3>2. (r \o x) \o <<>> = r \o x  BY <1>4 DEF Fresh, IsSeq
    <3> QED  BY <3>1, <3>2, <1>4
  <2> QED  BY <2>1, <2>2
<1>6. \A k \in DOMAIN (alerts \o r) :
         /\ k \in DOMAIN (alerts \o (r \o x \o y))
         /\ (alerts \o (r \o x \o y))[k] = (alerts \o r)[k]
  <2>1. IsSeq(r \o x)  BY <1>4 DEF Fresh
  <2> QED  BY <1>3, <2>1, Prefixed
<1> QED  BY <1>5, <1>6

LEMMA AlertInvInit == Init => AlertInv
<1> SUFFICES ASSUME Init PROVE AlertInv  OBVIOUS
<1>1. WorkInv /\ ~ AlertSession(Session)
  BY DEF Init, WorkInv, Session, AlertSession, NoWork, Workers
<1>2. DOMAIN alerts = {}  BY EmptyIsSeq, SeqFacts DEF Init
<1> QED  BY <1>1, <1>2, EmptyIsSeq DEF Init, AlertInv, Apart, Truthful

\* Steps that neither raise nor send: the session goes on, ends, or is new.
LEMMA NothingRaised ==
    ASSUME AlertInv, WorkInv', UNCHANGED <<alerts, sent>>,
           \/ now' = now
           \/ now' = now + 1 /\ ~ AlertSession(Session'),
           AlertSession(Session') => \/ AlertSession(Session) /\ Session' = Session
                                     \/ Session'.raised = <<>> /\ Session'.delivered = {}
    PROVE  AlertInv'
<1>1. now' \in Nat /\ now <= now'  BY DEF AlertInv
<1>2. \A a : IsAlert(a) => IsAlert(a)'  BY <1>1 DEF IsAlert, AlertInv
<1>3. ASSUME AlertSession(Session') PROVE SessionAlerts'
  <2>1. now' = now  BY <1>3
  <2>2. CASE AlertSession(Session) /\ Session' = Session
    BY <2>1, <2>2 DEF AlertInv, SessionAlerts, Fresh, Apart, IsAlert
  <2>3. CASE Session'.raised = <<>> /\ Session'.delivered = {}
    <3>1. alerts \o <<>> = alerts  BY DEF AlertInv, IsSeq
    <3>2. DOMAIN <<>> = {}  BY EmptyIsSeq, SeqFacts
    <3> QED  BY <2>3, <3>1, <3>2, EmptyIsSeq DEF AlertInv, SessionAlerts, Fresh, Apart
  <2> QED  BY <1>3, <2>2, <2>3
<1> QED  BY <1>1, <1>2, <1>3 DEF AlertInv, Apart, Truthful

LEMMA CheckKeeps ==
    ASSUME AlertInv, WorkInv', NEW i \in 1..MaxCalls, CheckThesis(i)
    PROVE  AlertInv'
<1> DEFINE r == Session.raised \o NewAlert(Wins(i), "PRICE_TARGET", i)
                               \o NewAlert(Fails(i), "THESIS_INVALIDATED", i)
<1>1. /\ AlertSession(Session) /\ UNCHANGED <<now, alerts, sent>>
      /\ Session'.raised = r /\ Session'.delivered = Session.delivered
  BY CheckEffect DEF AlertInv, Session, rows
<1>2. /\ Fresh(r)
      /\ \A k \in DOMAIN (alerts \o Session.raised) :
            k \in DOMAIN (alerts \o r) /\ (alerts \o r)[k] = (alerts \o Session.raised)[k]
  BY <1>1, CheckFresh
<1> HIDE DEF r
<1>3. SessionAlerts'
  <2>1. Fresh(Session.raised)'
    BY <1>1, <1>2 DEF Fresh, Apart, IsAlert
  <2>2. \A k \in Session.delivered :
           /\ k \in DOMAIN (alerts \o Session.raised)
           /\ Key((alerts \o Session.raised)[k]) \in sent
    BY <1>1 DEF AlertInv, SessionAlerts
  <2> QED  BY <1>1, <1>2, <2>1, <2>2 DEF SessionAlerts, Key
<1> QED  BY <1>1, <1>3 DEF AlertInv, Apart, Truthful, IsAlert

LEMMA DispatchKeeps ==
    ASSUME AlertInv, WorkInv', Dispatch
    PROVE  AlertInv'
<1>1. /\ AlertSession(Session) /\ UNCHANGED <<now, alerts>>
      /\ Session'.raised = Session.raised
      /\ Session'.delivered \subseteq DOMAIN (alerts \o Session.raised)
      /\ sent' = sent \cup {Key((alerts \o Session.raised)[k]) : k \in Session'.delivered}
  BY DispatchEffect DEF AlertInv, Session, rows
<1>2. Fresh(Session.raised)'
  <2> DEFINE r == Session.raised
  <2>1. Fresh(r) /\ Session'.raised = r  BY <1>1 DEF AlertInv, SessionAlerts
  <2> HIDE DEF r
  <2> QED  BY <1>1, <2>1 DEF Fresh, Apart, IsAlert
<1>3. SessionAlerts'  BY <1>1, <1>2 DEF SessionAlerts, Key
<1>4. Truthful'  BY <1>1 DEF AlertInv, Truthful, Key
<1> QED  BY <1>1, <1>3, <1>4 DEF AlertInv, Apart, IsAlert

LEMMA CommitAlertsKeeps ==
    ASSUME AlertInv, WorkInv', CommitAlerts
    PROVE  AlertInv'
<1> DEFINE all == alerts \o Session.raised
<1>1. /\ AlertSession(Session) /\ UNCHANGED <<now, sent>> /\ Session' = NoWork
  BY CommitAlertsEffect DEF AlertInv, Session
<1>2. alerts' = [k \in DOMAIN all |-> [all[k] EXCEPT !.notified = @ \/ k \in Session.delivered]]
  BY DEF CommitAlerts
<1>3. IsSeq(alerts) /\ IsSeq(Session.raised) /\ Apart(all)
  BY <1>1 DEF AlertInv, SessionAlerts, Fresh
<1>4. IsSeq(all)  BY <1>3, Joined
<1>5. \A k \in DOMAIN all : /\ IsAlert(all[k])
                            /\ all[k].notified => Key(all[k]) \in sent
  <2>1. /\ DOMAIN alerts = 1..Len(alerts) /\ Len(alerts) \in Nat
        /\ DOMAIN Session.raised = 1..Len(Session.raised) /\ Len(Session.raised) \in Nat
        /\ DOMAIN all = 1..Len(alerts) + Len(Session.raised)
        /\ \A k \in DOMAIN all : all[k] = IF k <= Len(alerts) THEN alerts[k]
                                            ELSE Session.raised[k - Len(alerts)]
    BY <1>3, <1>4, SeqFacts, Joined
  <2> HIDE DEF all
  <2> SUFFICES ASSUME NEW k \in DOMAIN all
               PROVE  IsAlert(all[k]) /\ (all[k].notified => Key(all[k]) \in sent)
    OBVIOUS
  <2>2. CASE k <= Len(alerts)
    <3>1. k \in DOMAIN alerts /\ all[k] = alerts[k]  BY <2>1, <2>2
    <3> QED  BY <3>1 DEF AlertInv, Truthful
  <2>3. CASE ~ k <= Len(alerts)
    <3>1. k - Len(alerts) \in DOMAIN Session.raised
             /\ all[k] = Session.raised[k - Len(alerts)]
      BY <2>1, <2>3
    <3> QED  BY <3>1, <1>1 DEF AlertInv, SessionAlerts, Fresh
  <2> QED  BY <2>2, <2>3
<1>6. \A k \in Session.delivered : Key(all[k]) \in sent
  BY <1>1 DEF AlertInv, SessionAlerts
<1> HIDE DEF all
<1>7. /\ IsSeq(alerts') /\ DOMAIN alerts' = DOMAIN all
      /\ \A k \in DOMAIN all : /\ alerts'[k].type = all[k].type
                               /\ alerts'[k].ticker = all[k].ticker
                               /\ alerts'[k].day = all[k].day
                               /\ alerts'[k].notified = (all[k].notified \/ k \in Session.delivered)
                               /\ DOMAIN alerts'[k] = DOMAIN all[k]
  <2>1. DOMAIN alerts' = DOMAIN all /\ alerts' = [k \in DOMAIN all |-> alerts'[k]]  BY <1>2
  <2>2. IsSeq(alerts')  BY <1>4, <2>1, Rewritten
  <2> QED  BY <1>2, <1>5, <2>1, <2>2 DEF IsAlert
<1>8. \A k \in DOMAIN all : Key(alerts'[k]) = Key(all[k]) /\ IsAlert(alerts[k])'
  BY <1>1, <1>5, <1>7 DEF Key, IsAlert
<1>9. Apart(alerts')  BY <1>3, <1>7 DEF Apart
<1>10. Truthful'
  <2> SUFFICES ASSUME NEW k \in DOMAIN all, alerts'[k].notified
               PROVE  Key(alerts'[k]) \in sent
    BY <1>1, <1>7, <1>8 DEF Truthful, Key
  <2> QED  BY <1>5, <1>6, <1>7, <1>8
<1>11. ~ AlertSession(Session')  BY <1>1 DEF AlertSession, NoWork
<1> QED  BY <1>1, <1>7, <1>8, <1>9, <1>10, <1>11 DEF AlertInv, Apart

LEMMA AlertInvStep == AlertInv /\ [Next]_vars => AlertInv'
<1> SUFFICES ASSUME AlertInv, [Next]_vars PROVE AlertInv'  OBVIOUS
<1>1. WorkInv /\ WorkInv'  BY WorkInvStep DEF AlertInv
<1>2. ASSUME NEW w \in Workers, ResearchStep(w) PROVE AlertInv'
  <2>1. /\ UNCHANGED <<now, alerts, sent>>
        /\ Session' = Session \/ Session' = NoWork \/ ResearchSession(Session')
    BY <1>1, <1>2, ResearchEffects DEF OneWorks, WorkInv, Session, Workers
  <2>2. AlertSession(Session') => Session' = Session
    BY <2>1 DEF AlertSession, ResearchSession, NoWork
  <2> QED  BY <1>1, <2>1, <2>2, NothingRaised
<1>3. CASE AlertStep
  <2>1. ASSUME BeginAlerts PROVE AlertInv'
    <3>1. /\ UNCHANGED <<now, alerts, sent>>
          /\ Session'.raised = <<>> /\ Session'.delivered = {}
      BY <1>1, <2>1, BeginAlertsEffect DEF Session, rows
    <3> QED  BY <1>1, <3>1, NothingRaised
  <2> QED  BY <1>1, <1>3, <2>1, CheckKeeps, DispatchKeeps, CommitAlertsKeeps DEF AlertStep
<1>4. CASE Grade
  <2>1. UNCHANGED <<now, alerts, sent>> /\ Session' = Session
    BY <1>4, GradeEffects DEF Session
  <2> QED  BY <1>1, <2>1, NothingRaised
<1>5. CASE ~ (\E w \in Workers : ResearchStep(w)) /\ ~ AlertStep /\ ~ Grade
  <2>1. /\ UNCHANGED <<alerts, sent>>
        /\ Session' = Session \/ Session' = NoWork
        /\ now' = now \/ (now' = now + 1 /\ Session = NoWork)
    BY <1>1, <1>5, IdleEffects DEF Session, Workers
  <2>2. ~ AlertSession(NoWork)  BY DEF AlertSession, NoWork
  <2> QED  BY <1>1, <2>1, <2>2, NothingRaised
<1> QED  BY <1>2, <1>3, <1>4, <1>5

\* dispatch_notifications and _exists: whatever fails, crashes or is run again,
\* a mark of notification is true and no alert is doubled within its days.
THEOREM AlertsOnce == Spec => [](AlertsNotRepeated /\ NotifiedWasSent)
<1>1. AlertInv => AlertsNotRepeated /\ NotifiedWasSent
  BY DEF AlertInv, Apart, Truthful, AlertsNotRepeated, NotifiedWasSent
<1> QED  BY <1>1, AlertInvInit, AlertInvStep, PTL DEF Spec

\* _exists: no alert is raised again within the days of its kind.
COROLLARY AlertsApart == Spec => []AlertsNotRepeated
<1> QED  BY AlertsOnce, PTL

\* dispatch_notifications: what is marked as notified was sent.
COROLLARY MarksAreTrue == Spec => []NotifiedWasSent
<1> QED  BY AlertsOnce, PTL

------------------------------------------------------------------------------
(* Theses and calls.  An update in flight has read its thesis as it stands, *)
(* or will be refused: the version it would archive exists.                *)

ThesisFields == {"ticker", "direction", "strategy", "status", "version", "levels"}
IsThesis(row) == DOMAIN row = ThesisFields

CallFields ==
    {"ticker", "thesis", "action", "direction", "strategy", "entry", "day", "outcome", "gain"}
IsCall(c) == DOMAIN c = CallFields

Standing(u) ==
    \/ theses[u.id].version = u.was.version /\ theses[u.id].levels = u.was.levels
    \/ \E v \in versions : v.thesis = u.id /\ v.version = u.was.version

IsUpdate(u) == u.id \in DOMAIN theses /\ IsThesis(u.was) /\ IsThesis(u.now) /\ Standing(u)

SessionRows(r) ==
    /\ \A k \in DOMAIN r.opened : IsThesis(r.opened[k])
    /\ \A k \in DOMAIN r.said : IsCall(r.said[k])
    /\ \A k \in DOMAIN r.updated : IsUpdate(r.updated[k])
    /\ r.looking # Nobody => IsThesis(r.looking.row)

TableInv ==
    /\ IsSeq(theses) /\ \A i \in DOMAIN theses : IsThesis(theses[i])
    /\ IsSeq(calls) /\ \A k \in DOMAIN calls : IsCall(calls[k])

RowInv ==
    /\ WorkInv
    /\ TableInv
    /\ \A w \in Workers : ResearchSession(work[w]) => SessionRows(work[w])

LEMMA RowInvInit == Init => RowInv
<1> SUFFICES ASSUME Init PROVE RowInv  OBVIOUS
<1>1. WorkInv /\ \A w \in Workers : ~ ResearchSession(work[w])
  BY DEF Init, WorkInv, ResearchSession, NoWork
<1>2. IsSeq(theses) /\ DOMAIN theses = {} /\ IsSeq(calls) /\ DOMAIN calls = {}
  BY EmptyIsSeq, SeqFacts DEF Init
<1> QED  BY <1>1, <1>2 DEF RowInv, TableInv

\* Steps that change no thesis: each session goes on as it was or stays sound.
LEMMA SameTheses ==
    ASSUME RowInv, WorkInv', UNCHANGED <<theses, versions>>,
           IsSeq(calls'), \A k \in DOMAIN calls' : IsCall(calls'[k]),
           \A w \in Workers : ResearchSession(work'[w]) =>
              work'[w] = work[w] \/ SessionRows(work'[w])
    PROVE  RowInv'
<1>1. \A u : IsUpdate(u)' <=> IsUpdate(u)  BY DEF IsUpdate, Standing
<1>2. \A w \in Workers : ResearchSession(work'[w]) => SessionRows(work'[w])
  BY DEF RowInv
<1>3. ASSUME NEW w \in Workers, ResearchSession(work'[w]) PROVE SessionRows(work[w])'
  BY <1>1, <1>2, <1>3 DEF SessionRows
<1> QED  BY <1>3 DEF RowInv, TableInv

LEMMA RowMade == ASSUME NEW t, NEW a, NEW d PROVE IsThesis(Row(t, a, d))
  BY DEF Row, IsThesis, ThesisFields

LEMMA CallMade == ASSUME NEW row, NEW action, NEW i, NEW d PROVE IsCall(Said(row, action, i, d))
  BY DEF Said, IsCall, CallFields

\* A sequence of sound elements stays one when a sound element is added.
LEMMA SoundAppend ==
    ASSUME NEW s, NEW e, IsSeq(s)
    PROVE  /\ DOMAIN Append(s, e) = DOMAIN s \cup {Len(s) + 1}
           /\ \A k \in DOMAIN s : Append(s, e)[k] = s[k]
           /\ Append(s, e)[Len(s) + 1] = e
           /\ Len(s) + 1 \notin DOMAIN s
<1>1. Len(s) \in Nat /\ DOMAIN s = 1..Len(s)  BY SeqFacts
<1>2. IsSeq(Append(s, e)) /\ Len(Append(s, e)) = Len(s) + 1  BY Appended
<1>3. DOMAIN Append(s, e) = 1..Len(s) + 1  BY <1>2, SeqFacts
<1> QED  BY <1>1, <1>3, Appended

LEMMA ConsiderKeepsRows ==
    ASSUME RowInv, WorkInv', NEW w \in Workers, NEW t \in Tickers, NEW a \in Analyses,
           Consider(w, t, a)
    PROVE  RowInv'
<1> DEFINE row == Row(t, a, work[w].day)
<1>1. /\ OneWorks(w) /\ ResearchSession(work[w]) /\ UNCHANGED <<theses, versions, calls>>
      /\ work'[w].opened = work[w].opened /\ work[w].looking = Nobody
      /\ Looked(w, t, a) \/ \E i \in Existing(row) : Found(w, t, a, i)
  BY ConsiderEffect DEF RowInv, rows
<1>2. SessionRows(work[w]) /\ IsSeq(work[w].updated) /\ IsSeq(work[w].said)
  BY <1>1 DEF RowInv, ResearchSession
<1>3. SessionRows(work'[w])
  <2>1. CASE Looked(w, t, a)
    BY <1>1, <1>2, <2>1, RowMade DEF Looked, SessionRows
  <2>2. ASSUME NEW i \in Existing(row), Found(w, t, a, i) PROVE SessionRows(work'[w])
    <3> DEFINE u == [id |-> i, was |-> theses[i], now |-> [row EXCEPT !.version = theses[i].version + 1]]
               c == Said(row, a.action, i, work[w].day)
    <3>1. /\ work'[w].updated = Append(work[w].updated, u) /\ work'[w].said = Append(work[w].said, c)
          /\ work'[w].looking = work[w].looking
      BY <2>2 DEF Found
    <3>2. IsUpdate(u)
      <4>1. i \in DOMAIN theses /\ IsThesis(theses[i])  BY DEF Existing, RowInv, TableInv
      <4>2. IsThesis([row EXCEPT !.version = theses[i].version + 1])
        BY RowMade DEF IsThesis
      <4> QED  BY <4>1, <4>2 DEF IsUpdate, Standing
    <3>3. IsCall(c)  BY CallMade
    <3> HIDE DEF u, c
    <3>4. \A k \in DOMAIN work'[w].updated : IsUpdate(work'[w].updated[k])
      BY <1>2, <3>1, <3>2, SoundAppend DEF SessionRows
    <3>5. \A k \in DOMAIN work'[w].said : IsCall(work'[w].said[k])
      BY <1>2, <3>1, <3>3, SoundAppend DEF SessionRows
    <3> QED  BY <1>1, <1>2, <3>1, <3>4, <3>5 DEF SessionRows
  <2> QED  BY <1>1, <2>1, <2>2
<1>4. \A v \in Workers : v # w => work'[v] = work[v]  BY <1>1 DEF OneWorks, RowInv, WorkInv
<1> QED  BY <1>1, <1>3, <1>4, SameTheses DEF RowInv, TableInv

LEMMA OpenKeepsRows ==
    ASSUME RowInv, WorkInv', NEW w \in Workers, OpenThesis(w)
    PROVE  RowInv'
<1> DEFINE c == Said(work[w].looking.row, work[w].looking.action,
                     Len(theses) + Len(work[w].opened) + 1, work[w].day)
<1>1. /\ OneWorks(w) /\ ResearchSession(work[w]) /\ UNCHANGED <<theses, versions, calls>>
      /\ work[w].looking # Nobody /\ work'[w].looking = Nobody
      /\ work'[w].opened = Append(work[w].opened, work[w].looking.row)
      /\ work'[w].said = Append(work[w].said, c)
      /\ work'[w].updated = work[w].updated
  BY OpenEffect DEF RowInv, rows, Opened
<1>2. IsCall(c)  BY CallMade
<1> HIDE DEF c
<1>3. SessionRows(work[w]) /\ IsSeq(work[w].opened) /\ IsSeq(work[w].said)
  BY <1>1 DEF RowInv, ResearchSession
<1>4. \A k \in DOMAIN work'[w].opened : IsThesis(work'[w].opened[k])
  BY <1>1, <1>3, SoundAppend DEF SessionRows
<1>5. \A k \in DOMAIN work'[w].said : IsCall(work'[w].said[k])
  BY <1>1, <1>2, <1>3, SoundAppend DEF SessionRows
<1>6. SessionRows(work'[w])  BY <1>1, <1>3, <1>4, <1>5 DEF SessionRows
<1>7. \A v \in Workers : v # w => work'[v] = work[v]  BY <1>1 DEF OneWorks, RowInv, WorkInv
<1> QED  BY <1>1, <1>6, <1>7, SameTheses DEF RowInv, TableInv

\* What a commit that is not refused writes: thesis i is left, or written over
\* by an update of the session; the new theses follow.
WrittenBy(w, i) ==
    \/ theses'[i] = theses[i]
    \/ \E k \in DOMAIN work[w].updated :
          /\ work[w].updated[k].id = i
          /\ theses'[i] = Written(theses[i], work[w].updated[k])

LEMMA CommitRows ==
    ASSUME RowInv, NEW w \in Workers, CommitResearch(w), ~ Refused(w)
    PROVE  /\ IsSeq(theses') /\ Len(theses') = Len(theses) + Len(work[w].opened)
           /\ \A i \in DOMAIN theses : WrittenBy(w, i)
           /\ \A k \in DOMAIN work[w].opened : theses'[Len(theses) + k] = work[w].opened[k]
           /\ versions' = versions \cup {Archive(u) : u \in ToSet(work[w].updated)}
           /\ calls' = calls \o work[w].said
<1> DEFINE updates == ToSet(work[w].updated)
           update(i) == CHOOSE u \in updates : u.id = i
           over == [i \in DOMAIN theses |-> IF \E u \in updates : u.id = i
                                           THEN Written(theses[i], update(i)) ELSE theses[i]]
<1>1. /\ theses' = over \o work[w].opened
      /\ versions' = versions \cup {Archive(u) : u \in updates}
      /\ calls' = calls \o work[w].said
  BY DEF CommitResearch
<1>2. IsSeq(theses) /\ IsSeq(work[w].opened)
  BY CommitEffect DEF RowInv, TableInv, ResearchSession
<1>3. \A i \in DOMAIN theses : \/ over[i] = theses[i]
                              \/ \E u \in updates : u.id = i /\ over[i] = Written(theses[i], u)
  <2> SUFFICES ASSUME NEW i \in DOMAIN theses
               PROVE  \/ over[i] = theses[i]
                      \/ \E u \in updates : u.id = i /\ over[i] = Written(theses[i], u)
    OBVIOUS
  <2>1. CASE \E u \in updates : u.id = i
    <3>1. update(i) \in updates /\ update(i).id = i  BY <2>1
    <3>2. over[i] = Written(theses[i], update(i))  BY <2>1
    <3> QED  BY <3>1, <3>2
  <2>2. CASE ~ \E u \in updates : u.id = i  BY <2>2
  <2> QED  BY <2>1, <2>2
<1>4. over = [i \in DOMAIN theses |-> over[i]]  OBVIOUS
<1> HIDE DEF over
<1>5. IsSeq(over) /\ Len(over) = Len(theses)  BY <1>2, <1>4, Rewritten
<1>6. /\ Len(theses) \in Nat /\ DOMAIN theses = 1..Len(theses)
      /\ Len(work[w].opened) \in Nat /\ DOMAIN work[w].opened = 1..Len(work[w].opened)
  BY <1>2, SeqFacts
<1>7. /\ IsSeq(theses') /\ Len(theses') = Len(theses) + Len(work[w].opened)
      /\ \A i \in 1..Len(theses) + Len(work[w].opened) :
            theses'[i] = IF i <= Len(theses) THEN over[i] ELSE work[w].opened[i - Len(theses)]
  <2> DEFINE o == work[w].opened
  <2>1. theses' = over \o o  BY <1>1
  <2>2. IsSeq(o)  BY <1>2
  <2> HIDE DEF o
  <2>3. /\ IsSeq(over \o o) /\ Len(over \o o) = Len(over) + Len(o)
        /\ \A i \in 1..Len(over) + Len(o) :
              (over \o o)[i] = IF i <= Len(over) THEN over[i] ELSE o[i - Len(over)]
    BY <1>5, <2>2, Joined
  <2>4. /\ IsSeq(theses') /\ Len(theses') = Len(theses) + Len(o)
        /\ \A i \in 1..Len(theses) + Len(o) :
              theses'[i] = IF i <= Len(theses) THEN over[i] ELSE o[i - Len(theses)]
    BY <1>5, <2>1, <2>3
  <2> QED  BY <2>4 DEF o
<1>8. \A i \in DOMAIN theses : theses'[i] = over[i]  BY <1>6, <1>7
<1>9. \A i \in DOMAIN theses : WrittenBy(w, i)
  <2> SUFFICES ASSUME NEW i \in DOMAIN theses PROVE WrittenBy(w, i)  OBVIOUS
  <2>1. CASE over[i] = theses[i]  BY <1>8, <2>1 DEF WrittenBy
  <2>2. ASSUME NEW u \in updates, u.id = i, over[i] = Written(theses[i], u) PROVE WrittenBy(w, i)
    <3>1. PICK k \in DOMAIN work[w].updated : u = work[w].updated[k]  BY DEF ToSet
    <3> QED  BY <1>8, <2>2, <3>1 DEF WrittenBy
  <2> QED  BY <1>3, <2>1, <2>2
<1>10. \A k \in DOMAIN work[w].opened : theses'[Len(theses) + k] = work[w].opened[k]
  <2> SUFFICES ASSUME NEW k \in 1..Len(work[w].opened)
               PROVE  theses'[Len(theses) + k] = work[w].opened[k]
    BY <1>6
  <2>1. /\ Len(theses) + k \in 1..Len(theses) + Len(work[w].opened)
        /\ ~ Len(theses) + k <= Len(theses)
        /\ Len(theses) + k - Len(theses) = k
    BY <1>6
  <2> QED  BY <1>7, <2>1
<1> QED  BY <1>1, <1>7, <1>9, <1>10

\* An update keeps every column it does not change.
LEMMA WrittenColumns ==
    ASSUME NEW row, IsThesis(row), NEW u
    PROVE  /\ IsThesis(Written(row, u))
           /\ \A f \in ThesisFields :
                 Written(row, u)[f] = IF u.now[f] # u.was[f] THEN u.now[f] ELSE row[f]
  BY DEF IsThesis, Written

\* No update is overtaken unseen: one that changes a row archives its version,
\* which is the one every other update of the row has read.
LEMMA CommitStanding ==
    ASSUME RowInv, NEW w \in Workers, CommitResearch(w), ~ Refused(w), NEW u, IsUpdate(u)
    PROVE  Standing(u)'
<1>1. /\ versions \subseteq versions'
      /\ \A k \in DOMAIN work[w].updated : Archive(work[w].updated[k]) \in versions'
  BY CommitRows DEF ToSet
<1>2. CASE \E v \in versions : v.thesis = u.id /\ v.version = u.was.version
  BY <1>1, <1>2 DEF Standing
<1>3. CASE theses[u.id].version = u.was.version /\ theses[u.id].levels = u.was.levels
  <2>1. u.id \in DOMAIN theses  BY DEF IsUpdate
  <2>2. CASE theses'[u.id] = theses[u.id]  BY <1>3, <2>2 DEF Standing
  <2>3. ASSUME NEW k \in DOMAIN work[w].updated, work[w].updated[k].id = u.id
        PROVE  Standing(u)'
    <3> DEFINE z == work[w].updated[k]
    <3>1. IsUpdate(z)
      BY CommitEffect DEF RowInv, SessionRows
    <3>2. ~ \E v \in versions : v.thesis = z.id /\ v.version = z.was.version
      BY DEF Refused, ToSet
    <3>3. z.was.version = u.was.version  BY <1>3, <2>3, <3>1, <3>2 DEF IsUpdate, Standing
    <3>4. Archive(z).thesis = u.id /\ Archive(z).version = u.was.version
      BY <2>3, <3>3 DEF Archive
    <3> QED  BY <1>1, <3>4 DEF Standing
  <2> QED  BY <2>1, <2>2, <2>3, CommitRows DEF WrittenBy
<1> QED  BY <1>2, <1>3 DEF IsUpdate, Standing

LEMMA CommitKeepsRows ==
    ASSUME RowInv, WorkInv', NEW w \in Workers, CommitResearch(w)
    PROVE  RowInv'
<1>1. OneWorks(w) /\ work'[w] = NoWork /\ ResearchSession(work[w])
  BY CommitEffect DEF RowInv
<1>2. /\ \A v \in Workers : ResearchSession(work'[v]) => v # w /\ work'[v] = work[v]
  BY <1>1 DEF OneWorks, RowInv, WorkInv, ResearchSession, NoWork
<1>3. CASE Refused(w)
  <2>1. UNCHANGED <<theses, versions, calls>>  BY <1>3 DEF CommitResearch, rows
  <2> QED  BY <1>2, <2>1, SameTheses DEF RowInv, TableInv
<1>4. CASE ~ Refused(w)
  <2>1. SessionRows(work[w]) /\ IsSeq(work[w].said) /\ IsSeq(work[w].opened)
    BY <1>1 DEF RowInv, ResearchSession
  <2>2. /\ IsSeq(theses') /\ Len(theses') = Len(theses) + Len(work[w].opened)
        /\ \A i \in DOMAIN theses : WrittenBy(w, i)
        /\ \A k \in DOMAIN work[w].opened : theses'[Len(theses) + k] = work[w].opened[k]
        /\ calls' = calls \o work[w].said
    BY <1>4, CommitRows
  <2>3. /\ Len(theses) \in Nat /\ DOMAIN theses = 1..Len(theses)
        /\ Len(work[w].opened) \in Nat /\ DOMAIN work[w].opened = 1..Len(work[w].opened)
        /\ DOMAIN theses' = 1..Len(theses')
        /\ Len(calls) \in Nat /\ DOMAIN calls = 1..Len(calls)
        /\ Len(work[w].said) \in Nat /\ DOMAIN work[w].said = 1..Len(work[w].said)
    BY <2>1, <2>2, SeqFacts DEF RowInv, TableInv
  <2>4. ASSUME NEW i \in DOMAIN theses' PROVE IsThesis(theses'[i])
    <3>1. CASE i \in DOMAIN theses
      BY <2>2, <3>1, WrittenColumns DEF WrittenBy, RowInv, TableInv
    <3>2. CASE i \notin DOMAIN theses
      <4>1. /\ i - Len(theses) \in DOMAIN work[w].opened
            /\ i = Len(theses) + (i - Len(theses))
        BY <2>2, <2>3, <3>2
      <4>2. theses'[i] = work[w].opened[i - Len(theses)]  BY <2>2, <4>1
      <4> QED  BY <2>1, <4>1, <4>2 DEF SessionRows
    <3> QED  BY <3>1, <3>2
  <2>5. IsSeq(calls') /\ \A k \in DOMAIN calls' : IsCall(calls'[k])
    <3>1. /\ IsSeq(calls') /\ Len(calls') = Len(calls) + Len(work[w].said)
          /\ \A k \in 1..Len(calls) + Len(work[w].said) :
                calls'[k] = IF k <= Len(calls) THEN calls[k] ELSE work[w].said[k - Len(calls)]
      BY <2>1, <2>2, Joined DEF RowInv, TableInv
    <3>2. DOMAIN calls' = 1..Len(calls) + Len(work[w].said)  BY <3>1, SeqFacts
    <3> SUFFICES ASSUME NEW k \in 1..Len(calls) + Len(work[w].said) PROVE IsCall(calls'[k])
      BY <3>1, <3>2
    <3>3. CASE k <= Len(calls)
      BY <2>3, <3>1, <3>3 DEF RowInv, TableInv
    <3>4. CASE ~ k <= Len(calls)
      <4>1. k - Len(calls) \in DOMAIN work[w].said  BY <2>3, <3>4
      <4> QED  BY <2>1, <3>1, <3>4, <4>1 DEF SessionRows
    <3> QED  BY <3>3, <3>4
  <2>6. ASSUME NEW v \in Workers, ResearchSession(work'[v]) PROVE SessionRows(work[v])'
    <3>1. work'[v] = work[v] /\ SessionRows(work[v])  BY <1>2, <2>6 DEF RowInv
    <3>2. DOMAIN theses \subseteq DOMAIN theses'  BY <2>2, <2>3
    <3>3. ASSUME NEW k \in DOMAIN work[v].updated PROVE IsUpdate(work[v].updated[k])'
      <4> DEFINE u == work[v].updated[k]
      <4>1. IsUpdate(u)  BY <3>1, <3>3 DEF SessionRows
      <4> HIDE DEF u
      <4>2. u' = u  BY <3>1 DEF u
      <4>3. Standing(u)'  BY <1>4, <4>1, <4>2, CommitStanding DEF Standing
      <4>4. IsUpdate(u)'  BY <3>2, <4>1, <4>2, <4>3 DEF IsUpdate
      <4> QED  BY <4>4 DEF u
    <3> QED  BY <3>1, <3>3 DEF SessionRows
  <2> QED  BY <2>2, <2>4, <2>5, <2>6 DEF RowInv, TableInv
<1> QED  BY <1>3, <1>4

\* A verdict is written into an open call and nowhere else.
LEMMA GradedCalls ==
    ASSUME TableInv, Grade
    PROVE  /\ IsSeq(calls') /\ DOMAIN calls' = DOMAIN calls
           /\ \A k \in DOMAIN calls :
                 /\ IsCall(calls'[k])
                 /\ \/ calls'[k] = calls[k]
                    \/ /\ calls[k].outcome = "OPEN"
                       /\ \A f \in CallFields \ {"outcome", "gain"} : calls'[k][f] = calls[k][f]
<1>1. calls' = [k \in DOMAIN calls |-> IF Due(calls[k]) THEN Judged(calls[k]) ELSE calls[k]]
  BY DEF Grade
<1>2. \A c : IsCall(c) => /\ IsCall(Judged(c))
                          /\ \A f \in CallFields \ {"outcome", "gain"} : Judged(c)[f] = c[f]
  <2> SUFFICES ASSUME NEW c, IsCall(c)
               PROVE  /\ IsCall(Judged(c))
                      /\ \A f \in CallFields \ {"outcome", "gain"} : Judged(c)[f] = c[f]
    OBVIOUS
  <2>1. \/ Judged(c) = [c EXCEPT !.outcome = "NO_DATA"]
        \/ \E g : Judged(c) = [c EXCEPT !.outcome = "GRADED", !.gain = g]
    BY DEF Judged
  <2> QED  BY <2>1 DEF IsCall, CallFields
<1>3. calls' = [k \in DOMAIN calls |-> calls'[k]] /\ DOMAIN calls' = DOMAIN calls  BY <1>1
<1>4. IsSeq(calls')  BY <1>3, Rewritten DEF TableInv
<1>5. ASSUME NEW k \in DOMAIN calls
      PROVE  /\ IsCall(calls'[k])
             /\ \/ calls'[k] = calls[k]
                \/ /\ calls[k].outcome = "OPEN"
                   /\ \A f \in CallFields \ {"outcome", "gain"} : calls'[k][f] = calls[k][f]
  <2>1. IsCall(calls[k])  BY DEF TableInv
  <2>2. CASE Due(calls[k])
    <3>1. calls'[k] = Judged(calls[k])  BY <1>1, <2>2
    <3> QED  BY <3>1, <1>2, <2>1, <2>2 DEF Due
  <2>3. CASE ~ Due(calls[k])
    <3>1. calls'[k] = calls[k]  BY <1>1, <2>3
    <3> QED  BY <3>1, <2>1
  <2> QED  BY <2>2, <2>3
<1> QED  BY <1>3, <1>4, <1>5

\* The commit of the alert step changes the status of theses alone.
LEMMA StoppedTheses ==
    ASSUME TableInv, CommitAlerts
    PROVE  /\ IsSeq(theses') /\ DOMAIN theses' = DOMAIN theses
           /\ \A i \in DOMAIN theses :
                 /\ IsThesis(theses'[i])
                 /\ \A f \in ThesisFields \ {"status"} : theses'[i][f] = theses[i][f]
                 /\ theses'[i].status = theses[i].status \/ theses'[i].status = "INVALIDATED"
<1>1. theses' = [i \in DOMAIN theses |-> IF i \in Session.stopped
                    THEN [theses[i] EXCEPT !.status = "INVALIDATED"] ELSE theses[i]]
  BY DEF CommitAlerts
<1>2. theses' = [i \in DOMAIN theses |-> theses'[i]] /\ DOMAIN theses' = DOMAIN theses  BY <1>1
<1>3. IsSeq(theses')  BY <1>2, Rewritten DEF TableInv
<1>4. \A i \in DOMAIN theses :
         theses'[i] = theses[i] \/ theses'[i] = [theses[i] EXCEPT !.status = "INVALIDATED"]
  BY <1>1
<1> QED  BY <1>2, <1>3, <1>4 DEF TableInv, IsThesis, ThesisFields

LEMMA RowInvStep == RowInv /\ [Next]_vars => RowInv'
<1> SUFFICES ASSUME RowInv, [Next]_vars PROVE RowInv'  OBVIOUS
<1>1. WorkInv /\ WorkInv'  BY WorkInvStep DEF RowInv
<1>2. IsSeq(calls) /\ \A k \in DOMAIN calls : IsCall(calls[k])  BY DEF RowInv, TableInv
<1>3. ASSUME NEW w \in Workers, ResearchStep(w) PROVE RowInv'
  <2>1. ASSUME NEW names \in SUBSET Tickers, BeginResearch(w, names) PROVE RowInv'
    <3>1. OneWorks(w) /\ Begun(w)  BY <1>1, <2>1, BeginEffect
    <3>2. SessionRows(work'[w])  BY <3>1, EmptyIsSeq, SeqFacts DEF Begun, SessionRows
    <3>3. \A v \in Workers : v # w => work'[v] = work[v]  BY <1>1, <3>1 DEF OneWorks, WorkInv
    <3>4. UNCHANGED <<theses, versions, calls>>  BY <3>1 DEF Begun, rows
    <3> QED  BY <1>1, <1>2, <3>2, <3>3, <3>4, SameTheses
  <2> QED
    BY <1>1, <1>3, <2>1, ConsiderKeepsRows, OpenKeepsRows, CommitKeepsRows DEF ResearchStep
<1>4. CASE AlertStep
  <2>1. \A w \in Workers : ResearchSession(work'[w]) => work'[w] = work[w]
    BY <1>1, <1>4, AlertEffects
    DEF OneWorks, WorkInv, ResearchSession, AlertSession, NoWork
  <2>2. CASE UNCHANGED <<theses, versions, calls>>  BY <1>1, <1>2, <2>1, <2>2, SameTheses
  <2>3. CASE CommitAlerts
    <3>1. UNCHANGED <<versions, calls>>  BY <1>1, <2>3, CommitAlertsEffect
    <3>2. /\ IsSeq(theses') /\ DOMAIN theses' = DOMAIN theses
          /\ \A i \in DOMAIN theses : /\ IsThesis(theses'[i])
                                       /\ theses'[i].version = theses[i].version
                                       /\ theses'[i].levels = theses[i].levels
      BY <2>3, StoppedTheses DEF RowInv, ThesisFields
    <3>3. \A u : IsUpdate(u) => IsUpdate(u)'  BY <3>1, <3>2 DEF IsUpdate, Standing
    <3>4. ASSUME NEW w \in Workers, ResearchSession(work'[w]) PROVE SessionRows(work[w])'
      <4>1. work'[w] = work[w] /\ SessionRows(work[w])  BY <2>1, <3>4 DEF RowInv
      <4> QED  BY <3>3, <4>1 DEF SessionRows
    <3> QED  BY <1>1, <1>2, <3>1, <3>2, <3>4 DEF RowInv, TableInv
  <2>4. BeginAlerts \/ (\E i \in 1..MaxCalls : CheckThesis(i)) \/ Dispatch
           => UNCHANGED <<theses, versions, calls>>
    BY <1>1, BeginAlertsEffect, CheckEffect, DispatchEffect DEF rows
  <2> QED  BY <1>4, <2>2, <2>3, <2>4 DEF AlertStep
<1>5. CASE Grade
  <2>1. UNCHANGED <<theses, versions, work>>  BY <1>5, GradeEffects
  <2>2. IsSeq(calls') /\ \A k \in DOMAIN calls' : IsCall(calls'[k])
    BY <1>5, GradedCalls DEF RowInv
  <2> QED  BY <1>1, <2>1, <2>2, SameTheses
<1>6. CASE ~ (\E w \in Workers : ResearchStep(w)) /\ ~ AlertStep /\ ~ Grade
  <2>1. /\ UNCHANGED <<theses, versions, calls>>
        /\ \A w \in Workers : work'[w] = work[w] \/ work'[w] = NoWork
    BY <1>1, <1>6, IdleEffects
  <2>2. ~ ResearchSession(NoWork)  BY DEF ResearchSession, NoWork
  <2> QED  BY <1>1, <1>2, <2>1, <2>2, SameTheses
<1> QED  BY <1>3, <1>4, <1>5, <1>6

LEMMA RowInvHolds == Spec => []RowInv
  BY RowInvInit, RowInvStep, PTL DEF Spec

\* Only two commits change theses, and only a commit and the grading calls.
LEMMA WhoWrites ==
    ASSUME WorkInv, [Next]_vars
    PROVE  /\ UNCHANGED theses \/ CommitAlerts \/ \E w \in Workers : CommitResearch(w) /\ ~ Refused(w)
           /\ UNCHANGED calls \/ Grade \/ \E w \in Workers : CommitResearch(w) /\ ~ Refused(w)
<1>1. ASSUME NEW w \in Workers, ResearchStep(w)
      PROVE  UNCHANGED <<theses, calls>> \/ (CommitResearch(w) /\ ~ Refused(w))
  <2>1. ASSUME NEW names \in SUBSET Tickers, BeginResearch(w, names) PROVE UNCHANGED <<theses, calls>>
    BY <2>1 DEF BeginResearch, rows
  <2>2. ASSUME NEW t \in Tickers, NEW a \in Analyses, Consider(w, t, a)
        PROVE  UNCHANGED <<theses, calls>>
    BY <2>2, ConsiderEffect DEF rows
  <2>3. OpenThesis(w) => UNCHANGED <<theses, calls>>  BY OpenEffect DEF rows
  <2>4. CommitResearch(w) /\ Refused(w) => UNCHANGED <<theses, calls>>
    BY DEF CommitResearch, rows
  <2> QED  BY <1>1, <2>1, <2>2, <2>3, <2>4 DEF ResearchStep
<1>2. CASE AlertStep
  <2>1. CommitAlerts => UNCHANGED calls  BY DEF CommitAlerts
  <2>2. ~ CommitAlerts => UNCHANGED <<theses, calls>>
    BY <1>2, BeginAlertsEffect, CheckEffect, DispatchEffect DEF AlertStep, rows
  <2> QED  BY <2>1, <2>2
<1>3. CASE Grade  BY <1>3, GradeEffects
<1>4. CASE ~ (\E w \in Workers : ResearchStep(w)) /\ ~ AlertStep /\ ~ Grade
  BY <1>4, IdleEffects
<1> QED  BY <1>1, <1>2, <1>3, <1>4

\* upsert_thesis: whatever sessions overlap, the levels an update replaces are
\* in the archive under the version they had.
THEOREM LevelsKept == Spec => LevelsArchived
<1> DEFINE Kept(i) == theses'[i].levels # theses[i].levels =>
                         [thesis |-> i, version |-> theses[i].version, levels |-> theses[i].levels]
                             \in versions'
           Archiving == \A i \in DOMAIN theses : Kept(i)
<1>1. RowInv /\ [Next]_vars => [Archiving]_vars
  <2> SUFFICES ASSUME RowInv, [Next]_vars, NEW i \in DOMAIN theses PROVE Kept(i)  OBVIOUS
  <2>1. CASE UNCHANGED theses  BY <2>1
  <2>2. CASE CommitAlerts
    <3>1. theses'[i].levels = theses[i].levels  BY <2>2, StoppedTheses DEF RowInv, ThesisFields
    <3> QED  BY <3>1
  <2>3. ASSUME NEW w \in Workers, CommitResearch(w), ~ Refused(w) PROVE Kept(i)
    <3>1. CASE theses'[i] = theses[i]  BY <3>1
    <3>2. ASSUME NEW k \in DOMAIN work[w].updated, work[w].updated[k].id = i,
                 theses'[i] = Written(theses[i], work[w].updated[k])
          PROVE  Kept(i)
      <4> DEFINE u == work[w].updated[k]
      <4>1. IsUpdate(u)  BY <2>3, CommitEffect DEF RowInv, SessionRows
      <4>2. ~ \E v \in versions : v.thesis = u.id /\ v.version = u.was.version
        BY <2>3 DEF Refused, ToSet
      <4>3. theses[i].version = u.was.version /\ theses[i].levels = u.was.levels
        BY <3>2, <4>1, <4>2 DEF IsUpdate, Standing
      <4>4. Archive(u) \in versions'  BY <2>3, CommitRows DEF RowInv, ToSet
      <4>5. Archive(u) = [thesis |-> i, version |-> theses[i].version, levels |-> theses[i].levels]
        BY <3>2, <4>3 DEF Archive
      <4> QED  BY <4>4, <4>5
    <3> QED  BY <2>3, <3>1, <3>2, CommitRows DEF WrittenBy
  <2> QED  BY <2>1, <2>2, <2>3, WhoWrites DEF RowInv
<1> HIDE DEF Archiving
<1>2. Spec => [][Archiving]_vars  BY <1>1, RowInvHolds, PTL DEF Spec
<1> QED  BY <1>2 DEF LevelsArchived, Archiving

\* evaluate_recommendations and upsert_thesis: what was recommended is never
\* edited, and a verdict is final.
THEOREM VerdictsFinal == Spec => VerdictStands
<1> DEFINE Plain(c) == [c EXCEPT !.outcome = "OPEN", !.gain = 0]
           Stands(k) == /\ Plain(calls'[k]) = Plain(calls[k])
                        /\ calls[k].outcome # "OPEN" => calls'[k] = calls[k]
           Final == \A k \in DOMAIN calls : Stands(k)
<1>1. RowInv /\ [Next]_vars => [Final]_vars
  <2> SUFFICES ASSUME RowInv, [Next]_vars, NEW k \in DOMAIN calls PROVE Stands(k)  OBVIOUS
  <2>1. CASE UNCHANGED calls  BY <2>1
  <2>2. CASE Grade
    <3>1. \/ calls'[k] = calls[k]
          \/ /\ calls[k].outcome = "OPEN"
             /\ \A f \in CallFields \ {"outcome", "gain"} : calls'[k][f] = calls[k][f]
      BY <2>2, GradedCalls DEF RowInv
    <3>2. IsCall(calls[k]) /\ IsCall(calls'[k])  BY <2>2, GradedCalls DEF RowInv, TableInv
    <3>3. ASSUME \A f \in CallFields \ {"outcome", "gain"} : calls'[k][f] = calls[k][f]
          PROVE  Plain(calls'[k]) = Plain(calls[k])
      <4>1. DOMAIN Plain(calls'[k]) = CallFields /\ DOMAIN Plain(calls[k]) = CallFields
        BY <3>2 DEF IsCall
      <4>2. \A f \in CallFields : Plain(calls'[k])[f] = Plain(calls[k])[f]
        BY <3>2, <3>3 DEF IsCall, CallFields
      <4>3. /\ Plain(calls'[k]) = [f \in CallFields |-> Plain(calls'[k])[f]]
            /\ Plain(calls[k]) = [f \in CallFields |-> Plain(calls[k])[f]]
        BY <3>2 DEF IsCall
      <4> QED  BY <4>2, <4>3
    <3> QED  BY <3>1, <3>3
  <2>3. ASSUME NEW w \in Workers, CommitResearch(w), ~ Refused(w) PROVE Stands(k)
    <3>1. calls' = calls \o work[w].said  BY <2>3, CommitRows
    <3>2. IsSeq(calls) /\ IsSeq(work[w].said)
      BY <2>3, CommitEffect DEF RowInv, TableInv, ResearchSession
    <3>3. k \in 1..Len(calls) /\ Len(calls) \in Nat /\ Len(work[w].said) \in Nat
      BY <3>2, SeqFacts
    <3>4. calls'[k] = calls[k]  BY <3>1, <3>2, <3>3, Joined
    <3> QED  BY <3>4
  <2> QED  BY <2>1, <2>2, <2>3, WhoWrites DEF RowInv
<1> HIDE DEF Final
<1>2. Spec => [][Final]_vars  BY <1>1, RowInvHolds, PTL DEF Spec
<1> QED  BY <1>2 DEF VerdictStands, Final

------------------------------------------------------------------------------
(* While sessions do not overlap, what one has looked up is still so when  *)
(* it commits, and the theses it opens are none of each other.             *)

Alone == \A w, v \in Workers : work[w] # NoWork /\ work[v] # NoWork => w = v

CleanSession(r) ==
    /\ \A k \in DOMAIN r.updated :
          /\ theses[r.updated[k].id].status \in Open
          /\ r.updated[k].now.ticker = r.updated[k].was.ticker
          /\ r.updated[k].now.direction = r.updated[k].was.direction
    /\ \A k \in DOMAIN r.opened : r.opened[k].ticker \notin r.todo /\ Existing(r.opened[k]) = {}
    /\ \A k, l \in DOMAIN r.opened : k # l => r.opened[k].ticker # r.opened[l].ticker
    /\ r.looking # Nobody => /\ r.looking.ticker \in r.todo
                             /\ r.looking.row.ticker = r.looking.ticker
                             /\ Existing(r.looking.row) = {}

CleanInv ==
    /\ RowInv
    /\ OneOpenThesis
    /\ clean => /\ Alone
                /\ \A w \in Workers : ResearchSession(work[w]) => CleanSession(work[w])

LEMMA CleanInvInit == Init => CleanInv
<1> SUFFICES ASSUME Init PROVE CleanInv  OBVIOUS
<1>1. RowInv  BY RowInvInit
<1>2. \A w \in Workers : work[w] = NoWork /\ ~ ResearchSession(work[w])
  BY DEF Init, ResearchSession, NoWork
<1>3. DOMAIN theses = {}  BY EmptyIsSeq, SeqFacts DEF Init
<1> QED  BY <1>1, <1>2, <1>3 DEF CleanInv, OneOpenThesis, Alone

\* Steps that change no thesis.
LEMMA SameThesesClean ==
    ASSUME CleanInv, RowInv', UNCHANGED theses, clean' => clean,
           clean' => Alone',
           \A w \in Workers : clean' /\ ResearchSession(work'[w]) =>
              work'[w] = work[w] \/ CleanSession(work'[w])
    PROVE  CleanInv'
<1>1. OneOpenThesis'  BY DEF CleanInv, OneOpenThesis
<1>2. \A row : Existing(row)' = Existing(row)  BY DEF Existing
<1>3. ASSUME clean', NEW w \in Workers, ResearchSession(work'[w]) PROVE CleanSession(work[w])'
  <2>1. CleanSession(work'[w])  BY <1>3 DEF CleanInv
  <2> QED  BY <1>2, <2>1 DEF CleanSession
<1> QED  BY <1>1, <1>3 DEF CleanInv

\* A step of a worker at work keeps it the only one.
LEMMA StaysAlone ==
    ASSUME WorkInv, Alone, NEW w \in Workers, OneWorks(w),
           work[w] # NoWork \/ \A v \in Workers : work[v] = NoWork
    PROVE  Alone'
  BY DEF Alone, OneWorks, WorkInv

LEMMA ConsiderKeepsClean ==
    ASSUME CleanInv, RowInv', NEW w \in Workers, NEW t \in Tickers, NEW a \in Analyses,
           Consider(w, t, a)
    PROVE  CleanInv'
<1> DEFINE row == Row(t, a, work[w].day)
<1>1. /\ OneWorks(w) /\ ResearchSession(work[w]) /\ UNCHANGED <<theses, clean>>
      /\ work'[w].opened = work[w].opened /\ work[w].looking = Nobody /\ t \in work[w].todo
      /\ Looked(w, t, a) \/ \E i \in Existing(row) : Found(w, t, a, i)
  BY ConsiderEffect DEF CleanInv, RowInv, rows
<1>2. row.ticker = t /\ IsThesis(row)  BY RowMade DEF Row
<1>3. work[w] # NoWork  BY <1>1 DEF ResearchSession, NoWork
<1>4. clean' => Alone'  BY <1>1, <1>3, StaysAlone DEF CleanInv, RowInv
<1>5. ASSUME clean' PROVE CleanSession(work'[w])
  <2>1. CleanSession(work[w])  BY <1>1, <1>5 DEF CleanInv
  <2>2. CASE Looked(w, t, a)
    BY <1>1, <1>2, <2>1, <2>2 DEF Looked, CleanSession
  <2>3. ASSUME NEW i \in Existing(row), Found(w, t, a, i) PROVE CleanSession(work'[w])
    <3> DEFINE u == [id |-> i, was |-> theses[i], now |-> [row EXCEPT !.version = theses[i].version + 1]]
    <3>1. /\ work'[w].updated = Append(work[w].updated, u) /\ work'[w].todo = work[w].todo \ {t}
          /\ work'[w].looking = Nobody
      BY <1>1, <2>3 DEF Found
    <3>2. /\ theses[u.id].status \in Open
          /\ u.now.ticker = u.was.ticker /\ u.now.direction = u.was.direction
      BY <1>2 DEF Existing, IsThesis, ThesisFields
    <3> HIDE DEF u
    <3>3. IsSeq(work[w].updated)  BY <1>1 DEF ResearchSession
    <3>4. \A k \in DOMAIN work'[w].updated :
            /\ theses[work'[w].updated[k].id].status \in Open
            /\ work'[w].updated[k].now.ticker = work'[w].updated[k].was.ticker
            /\ work'[w].updated[k].now.direction = work'[w].updated[k].was.direction
      BY <2>1, <3>1, <3>2, <3>3, SoundAppend DEF CleanSession
    <3> QED  BY <1>1, <2>1, <3>1, <3>4 DEF CleanSession
  <2> QED  BY <1>1, <2>2, <2>3
<1>6. \A v \in Workers : v # w => work'[v] = work[v]
  BY <1>1 DEF OneWorks, CleanInv, RowInv, WorkInv
<1> QED  BY <1>1, <1>4, <1>5, <1>6, SameThesesClean

LEMMA OpenKeepsClean ==
    ASSUME CleanInv, RowInv', NEW w \in Workers, OpenThesis(w)
    PROVE  CleanInv'
<1> DEFINE found == work[w].looking
<1>1. /\ OneWorks(w) /\ ResearchSession(work[w]) /\ UNCHANGED <<theses, clean>>
      /\ found # Nobody /\ work'[w].looking = Nobody
      /\ work'[w].todo = work[w].todo \ {found.ticker}
      /\ work'[w].opened = Append(work[w].opened, found.row)
      /\ work'[w].updated = work[w].updated
  BY OpenEffect DEF CleanInv, RowInv, rows, Opened
<1>2. work[w] # NoWork  BY <1>1 DEF ResearchSession, NoWork
<1>3. clean' => Alone'  BY <1>1, <1>2, StaysAlone DEF CleanInv, RowInv
<1>4. ASSUME clean' PROVE CleanSession(work'[w])
  <2>1. CleanSession(work[w])  BY <1>1, <1>4 DEF CleanInv
  <2>2. found.ticker \in work[w].todo /\ found.row.ticker = found.ticker /\ Existing(found.row) = {}
    BY <1>1, <2>1 DEF CleanSession
  <2>3. IsSeq(work[w].opened)  BY <1>1 DEF ResearchSession
  <2> DEFINE o == work[w].opened
             n == Append(o, found.row)
  <2>4. /\ DOMAIN n = DOMAIN o \cup {Len(o) + 1} /\ Len(o) + 1 \notin DOMAIN o
        /\ \A k \in DOMAIN o : n[k] = o[k]
        /\ n[Len(o) + 1] = found.row
    BY <2>3, SoundAppend
  <2>5. /\ \A k \in DOMAIN o : o[k].ticker \notin work[w].todo /\ Existing(o[k]) = {}
        /\ \A k, l \in DOMAIN o : k # l => o[k].ticker # o[l].ticker
    BY <2>1 DEF CleanSession
  <2> HIDE DEF n, o, found
  <2>6. \A k \in DOMAIN n : n[k].ticker \notin work[w].todo \ {found.ticker} /\ Existing(n[k]) = {}
    BY <2>2, <2>4, <2>5
  <2>7. \A k, l \in DOMAIN n : k # l => n[k].ticker # n[l].ticker
    BY <2>2, <2>4, <2>5
  <2>8. work'[w].opened = n  BY <1>1 DEF n, o, found
  <2> QED  BY <1>1, <2>1, <2>6, <2>7, <2>8 DEF CleanSession
<1>5. \A v \in Workers : v # w => work'[v] = work[v]
  BY <1>1 DEF OneWorks, CleanInv, RowInv, WorkInv
<1> QED  BY <1>1, <1>3, <1>4, <1>5, SameThesesClean

\* After the commit of the only session every open thesis was open before, or
\* is one that session found to be missing.
LEMMA CommitKeepsClean ==
    ASSUME CleanInv, RowInv', NEW w \in Workers, CommitResearch(w)
    PROVE  CleanInv'
<1>1. OneWorks(w) /\ ResearchSession(work[w]) /\ work'[w] = NoWork /\ clean' = clean
  BY CommitEffect DEF CleanInv, RowInv
<1>2. work[w] # NoWork /\ ~ ResearchSession(NoWork)  BY <1>1 DEF ResearchSession, NoWork
<1>3. clean' => Alone'  BY <1>1, <1>2, StaysAlone DEF CleanInv, RowInv
<1>4. \A v \in Workers : v # w => work'[v] = work[v]
  BY <1>1 DEF OneWorks, CleanInv, RowInv, WorkInv
<1>5. CASE Refused(w)
  <2>1. UNCHANGED theses  BY <1>5 DEF CommitResearch, rows
  <2> QED  BY <1>1, <1>2, <1>3, <1>4, <2>1, SameThesesClean
<1>6. CASE ~ Refused(w)
  <2>1. ASSUME clean, NEW v \in Workers PROVE ~ ResearchSession(work'[v])
    BY <1>1, <1>2, <1>4, <2>1 DEF CleanInv, Alone
  <2>2. ASSUME clean PROVE OneOpenThesis'
    <3> DEFINE o == work[w].opened
    <3>1. CleanSession(work[w]) /\ SessionRows(work[w]) /\ IsSeq(o)
      BY <1>1, <2>2 DEF CleanInv, RowInv, ResearchSession
    <3>2. /\ IsSeq(theses') /\ Len(theses') = Len(theses) + Len(o)
          /\ \A i \in DOMAIN theses : WrittenBy(w, i)
          /\ \A k \in DOMAIN o : theses'[Len(theses) + k] = o[k]
      BY <1>6, CommitRows DEF CleanInv
    <3>3. /\ Len(theses) \in Nat /\ DOMAIN theses = 1..Len(theses)
          /\ Len(o) \in Nat /\ DOMAIN o = 1..Len(o)
          /\ DOMAIN theses' = 1..Len(theses) + Len(o)
      BY <3>1, <3>2, SeqFacts DEF CleanInv, RowInv, TableInv
    <3>4. \A i \in DOMAIN theses : theses'[i].status \in Open =>
             /\ theses[i].status \in Open
             /\ theses'[i].ticker = theses[i].ticker
             /\ theses'[i].direction = theses[i].direction
      <4> SUFFICES ASSUME NEW i \in DOMAIN theses, theses'[i].status \in Open
                   PROVE  /\ theses[i].status \in Open
                          /\ theses'[i].ticker = theses[i].ticker
                          /\ theses'[i].direction = theses[i].direction
        OBVIOUS
      <4>1. CASE theses'[i] = theses[i]  BY <4>1
      <4>2. ASSUME NEW k \in DOMAIN work[w].updated, work[w].updated[k].id = i,
                   theses'[i] = Written(theses[i], work[w].updated[k])
            PROVE  /\ theses[i].status \in Open
                   /\ theses'[i].ticker = theses[i].ticker
                   /\ theses'[i].direction = theses[i].direction
        <5> DEFINE u == work[w].updated[k]
        <5>1. /\ theses[i].status \in Open
              /\ u.now.ticker = u.was.ticker /\ u.now.direction = u.was.direction
          BY <3>1, <4>2 DEF CleanSession
        <5>2. IsThesis(theses[i])  BY DEF CleanInv, RowInv, TableInv
        <5> HIDE DEF u
        <5>3. theses'[i] = Written(theses[i], u)  BY <4>2 DEF u
        <5> QED  BY <5>1, <5>2, <5>3, WrittenColumns DEF ThesisFields
      <4> QED  BY <3>2, <4>1, <4>2 DEF WrittenBy
    <3>5. \A i \in DOMAIN theses' \ DOMAIN theses : \E k \in DOMAIN o :
             i = Len(theses) + k /\ theses'[i] = o[k]
      <4> SUFFICES ASSUME NEW i \in DOMAIN theses', i \notin DOMAIN theses
                   PROVE  \E k \in DOMAIN o : i = Len(theses) + k /\ theses'[i] = o[k]
        OBVIOUS
      <4>1. i - Len(theses) \in DOMAIN o /\ i = Len(theses) + (i - Len(theses))  BY <3>3
      <4> QED  BY <3>2, <4>1
    <3> SUFFICES ASSUME NEW i \in DOMAIN theses', NEW j \in DOMAIN theses',
                        theses'[i].status \in Open, theses'[j].status \in Open,
                        theses'[i].ticker = theses'[j].ticker,
                        theses'[i].direction = theses'[j].direction
                 PROVE  i = j
      BY DEF OneOpenThesis
    <3>6. /\ \A k \in DOMAIN o : Existing(o[k]) = {}
          /\ \A k, l \in DOMAIN o : k # l => o[k].ticker # o[l].ticker
      BY <3>1 DEF CleanSession
    <3> HIDE DEF o
    <3>7. \A k \in DOMAIN o, h \in DOMAIN theses : theses[h].status \in Open =>
             ~ (theses[h].ticker = o[k].ticker /\ theses[h].direction = o[k].direction)
      BY <3>6 DEF Existing
    <3>8. CASE i \in DOMAIN theses /\ j \in DOMAIN theses
      BY <2>2, <3>4, <3>8 DEF CleanInv, OneOpenThesis
    <3>9. CASE i \in DOMAIN theses /\ j \notin DOMAIN theses  BY <3>4, <3>5, <3>7, <3>9
    <3>10. CASE i \notin DOMAIN theses /\ j \in DOMAIN theses  BY <3>4, <3>5, <3>7, <3>10
    <3>11. CASE i \notin DOMAIN theses /\ j \notin DOMAIN theses
      <4>1. PICK k \in DOMAIN o : i = Len(theses) + k /\ theses'[i] = o[k]  BY <3>5, <3>11
      <4>2. PICK l \in DOMAIN o : j = Len(theses) + l /\ theses'[j] = o[l]  BY <3>5, <3>11
      <4> QED  BY <3>6, <4>1, <4>2
    <3> QED  BY <3>8, <3>9, <3>10, <3>11
  <2>3. OneOpenThesis'
    <3>1. CASE clean  BY <2>2, <3>1
    <3>2. CASE ~ clean  BY <1>1, <3>2 DEF OneOpenThesis
    <3> QED  BY <3>1, <3>2
  <2> QED  BY <1>1, <1>3, <2>1, <2>3 DEF CleanInv
<1> QED  BY <1>5, <1>6

LEMMA CommitAlertsKeepsClean ==
    ASSUME CleanInv, RowInv', CommitAlerts
    PROVE  CleanInv'
<1>1. OneWorks(Scheduler) /\ AlertSession(Session) /\ work'[Scheduler] = NoWork /\ clean' = clean
  BY CommitAlertsEffect DEF CleanInv, RowInv
<1>2. Session # NoWork /\ ~ ResearchSession(NoWork)
  BY <1>1 DEF AlertSession, ResearchSession, NoWork
<1>3. clean' => Alone'
  BY <1>1, <1>2, StaysAlone DEF CleanInv, RowInv, Session, Workers
<1>4. ASSUME clean, NEW v \in Workers PROVE ~ ResearchSession(work'[v])
  <2>1. CASE v = Scheduler  BY <1>1, <1>2, <2>1
  <2>2. CASE v # Scheduler
    <3>1. work[v] = NoWork  BY <1>2, <1>4, <2>2 DEF CleanInv, Alone, Session, Workers
    <3>2. work'[v] = work[v]  BY <1>1, <2>2 DEF OneWorks, CleanInv, RowInv, WorkInv
    <3> QED  BY <1>2, <3>1, <3>2
  <2> QED  BY <2>1, <2>2
<1>5. OneOpenThesis'
  <2>1. TableInv /\ OneOpenThesis  BY DEF CleanInv, RowInv
  <2>2. DOMAIN theses' = DOMAIN theses  BY <2>1, StoppedTheses
  <2>3. ASSUME NEW i \in DOMAIN theses
        PROVE  /\ theses'[i].ticker = theses[i].ticker
               /\ theses'[i].direction = theses[i].direction
    BY <2>1, StoppedTheses DEF ThesisFields
  <2>4. ASSUME NEW i \in DOMAIN theses, theses'[i].status \in Open
        PROVE  theses[i].status \in Open
    <3>1. theses'[i].status = theses[i].status \/ theses'[i].status = "INVALIDATED"
      BY <2>1, StoppedTheses
    <3> QED  BY <2>4, <3>1 DEF Open
  <2> QED  BY <1>1, <2>1, <2>2, <2>3, <2>4 DEF OneOpenThesis
<1> QED  BY <1>1, <1>3, <1>4, <1>5 DEF CleanInv

LEMMA CleanInvStep == CleanInv /\ [Next]_vars => CleanInv'
<1> SUFFICES ASSUME CleanInv, [Next]_vars PROVE CleanInv'  OBVIOUS
<1>1. RowInv /\ RowInv' /\ WorkInv  BY RowInvStep DEF CleanInv, RowInv
<1>2. ASSUME NEW w \in Workers, ResearchStep(w) PROVE CleanInv'
  <2>1. ASSUME NEW names \in SUBSET Tickers, BeginResearch(w, names) PROVE CleanInv'
    <3>1. OneWorks(w) /\ Begun(w)  BY <1>1, <2>1, BeginEffect
    <3>2. CleanSession(work'[w])
      BY <3>1, EmptyIsSeq, SeqFacts DEF Begun, CleanSession
    <3>3. \A v \in Workers : v # w => work'[v] = work[v]  BY <1>1, <3>1 DEF OneWorks, WorkInv
    <3>4. UNCHANGED theses /\ (clean' => clean /\ \A v \in Workers : work[v] = NoWork)
      BY <3>1 DEF Begun, rows
    <3>5. clean' => Alone'  BY <1>1, <3>1, <3>4, StaysAlone DEF CleanInv
    <3> QED  BY <1>1, <3>2, <3>3, <3>4, <3>5, SameThesesClean
  <2> QED
    BY <1>1, <1>2, <2>1, ConsiderKeepsClean, OpenKeepsClean, CommitKeepsClean DEF ResearchStep
<1>3. CASE AlertStep
  <2>1. \A w \in Workers : ResearchSession(work'[w]) => work'[w] = work[w]
    BY <1>1, <1>3, AlertEffects
    DEF OneWorks, WorkInv, ResearchSession, AlertSession, NoWork
  <2>2. BeginAlerts => /\ UNCHANGED theses /\ (clean' => clean)
                       /\ clean' => \A v \in Workers : work[v] = NoWork
    BY <1>1, BeginAlertsEffect DEF rows
  <2>3. (\E i \in 1..MaxCalls : CheckThesis(i)) \/ Dispatch
           => UNCHANGED <<theses, clean>> /\ Session # NoWork
    BY <1>1, CheckEffect, DispatchEffect DEF rows, AlertSession, NoWork
  <2>4. CASE ~ CommitAlerts
    <3>1. UNCHANGED theses /\ (clean' => clean)  BY <1>3, <2>2, <2>3, <2>4 DEF AlertStep
    <3>2. OneWorks(Scheduler) /\ Scheduler \in Workers  BY <1>1, <1>3, AlertEffects DEF Workers
    <3>3. clean' => work[Scheduler] # NoWork \/ \A v \in Workers : work[v] = NoWork
      BY <1>3, <2>2, <2>3, <2>4 DEF AlertStep, Session
    <3>4. clean' => Alone  BY <3>1 DEF CleanInv
    <3>5. clean' => Alone'  BY <1>1, <3>2, <3>3, <3>4, StaysAlone
    <3> QED  BY <1>1, <2>1, <3>1, <3>5, SameThesesClean
  <2> QED  BY <1>1, <2>4, CommitAlertsKeepsClean
<1>4. CASE Grade
  <2>1. UNCHANGED <<theses, work, clean>>  BY <1>4, GradeEffects
  <2> QED  BY <1>1, <2>1, SameThesesClean DEF CleanInv, Alone
<1>5. CASE ~ (\E w \in Workers : ResearchStep(w)) /\ ~ AlertStep /\ ~ Grade
  <2>1. /\ UNCHANGED <<theses, clean>>
        /\ \A w \in Workers : work'[w] = work[w] \/ work'[w] = NoWork
    BY <1>1, <1>5, IdleEffects
  <2>2. ~ ResearchSession(NoWork)  BY DEF ResearchSession, NoWork
  <2>3. clean' => Alone'  BY <2>1 DEF CleanInv, Alone
  <2> QED  BY <1>1, <2>1, <2>2, <2>3, SameThesesClean
<1> QED  BY <1>2, <1>3, <1>4, <1>5

LEMMA CleanInvHolds == Spec => []CleanInv
  BY CleanInvInit, CleanInvStep, PTL DEF Spec

\* upsert_thesis: "created once per (ticker, direction)", over any number of
\* weeks, while no two sessions overlap.
THEOREM ThesesSingle == Spec => []OneOpenThesis
<1>1. CleanInv => OneOpenThesis  BY DEF CleanInv
<1> QED  BY <1>1, CleanInvHolds, PTL

\* The lookup of upsert_thesis passes over INVALIDATED, so that no later week
\* revives a disproved thesis while no two sessions overlap.
THEOREM DisprovedForGood == Spec => DisprovedStays
<1> DEFINE Stays == clean => \A i \in DOMAIN theses : theses[i].status = "INVALIDATED" =>
                                theses'[i].status = "INVALIDATED"
<1>1. CleanInv /\ [Next]_vars => [Stays]_vars
  <2> SUFFICES ASSUME CleanInv, [Next]_vars, clean, NEW i \in DOMAIN theses,
                      theses[i].status = "INVALIDATED"
               PROVE  theses'[i].status = "INVALIDATED"
    OBVIOUS
  <2>1. CASE UNCHANGED theses  BY <2>1
  <2>2. CASE CommitAlerts
    <3>1. TableInv  BY DEF CleanInv, RowInv
    <3>2. theses'[i].status = theses[i].status \/ theses'[i].status = "INVALIDATED"
      BY <2>2, <3>1, StoppedTheses
    <3> QED  BY <3>2
  <2>3. ASSUME NEW w \in Workers, CommitResearch(w), ~ Refused(w)
        PROVE  theses'[i].status = "INVALIDATED"
    <3>1. CleanSession(work[w])  BY <2>3, CommitEffect DEF CleanInv, RowInv
    <3>2. \A k \in DOMAIN work[w].updated : work[w].updated[k].id # i
      BY <3>1 DEF CleanSession, Open
    <3>3. theses'[i] = theses[i]  BY <2>3, <3>2, CommitRows DEF CleanInv, WrittenBy
    <3> QED  BY <3>3
  <2> QED  BY <2>1, <2>2, <2>3, WhoWrites DEF CleanInv, RowInv
<1> HIDE DEF Stays
<1>2. Spec => [][Stays]_vars  BY <1>1, CleanInvHolds, PTL DEF Spec
<1> QED  BY <1>2 DEF DisprovedStays, Stays
==============================================================================
