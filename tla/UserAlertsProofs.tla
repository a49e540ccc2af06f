--------------------------- MODULE UserAlertsProofs ---------------------------
(***************************************************************************)
(* Generated prices stay behind their label and fire no alert, and every   *)
(* recorded trigger was mailed, for any number of tickers and alerts.      *)
(***************************************************************************)
EXTENDS UserAlerts, TLAPS

(***************************************************************************)
(* A cached row that was generated carries the flag.  This is what each    *)
(* provider stamps, and it holds of the rows a sweep has not yet committed *)
(* as well.                                                                *)
(***************************************************************************)
Stamped(q) == q.made = "GENERATED" => q.isDemo

Good(q) == q \in Quote \cup {NoQuote} /\ Stamped(q)

GoodRows(rows) == rows \in [Tickers -> Quote \cup {NoQuote}] /\ \A t \in Tickers : Good(rows[t])

(***************************************************************************)
(* What a running sweep holds of an alert is what is stored of it, unless  *)
(* its owner paused or deleted it, and a mail left for each that fired.    *)
(***************************************************************************)
SweptRow(a) ==
    /\ sweep.read[a] \in Row
    /\ alerts[a] # Unused
    /\ Stored(a) => /\ alerts[a].count = sweep.read[a].count
                    /\ alerts[a].email = sweep.read[a].email

SweepInv ==
    sweep.running =>
        /\ GoodRows(sweep.quotes)
        /\ \A a \in sweep.todo \cup sweep.fired : SweptRow(a)
        /\ \A a \in sweep.todo : mails[a] < MaxCount
        /\ \A a \in sweep.todo : sweep.read[a].count <= mails[a] \/ ~ sweep.read[a].email
        /\ \A a \in sweep.fired : sweep.read[a].email => sweep.read[a].count + 1 <= mails[a]

AlertInv ==
    /\ TypeOK
    /\ GoodRows(quotes)
    /\ RecordedWasMailed
    /\ SweepInv

------------------------------------------------------------------------------

LEMMA ConstantTypes ==
    /\ Prices \subseteq Nat /\ Levels \subseteq Nat
    /\ Day \in Nat \ {0} /\ MaxAge \in Nat /\ VendorDelay \in Nat /\ MaxTime \in Nat
    /\ MaxCount \in Nat
  BY QuotesAssumption, AlertsAssumption

(***************************************************************************)
(* Whatever provider is chosen, each row it returns is typed and stamped.  *)
(***************************************************************************)
LEMMA FetchedGood ==
    ASSUME QuotesTypeOK, NEW wanted, wanted \subseteq Tickers, NEW fetched \in Fetched(wanted)
    PROVE  /\ DOMAIN fetched \subseteq Tickers
           /\ \A t \in DOMAIN fetched : Good(fetched[t])
<1>0. now \in Nat  BY ConstantTypes DEF QuotesTypeOK
<1>1. CASE Provider = "demo"
  <2>1. fetched \in [wanted -> {DemoQuote(p) : p \in Prices}]  BY <1>1 DEF Fetched
  <2>2. \A p \in Prices : Good(DemoQuote(p))
    BY <1>0 DEF DemoQuote, Good, Stamped, Quote, Made
  <2> QED  BY <2>1, <2>2
<1>2. CASE Provider = "stored"
  <2>1. fetched = [t \in {u \in wanted : bars[u] # NoBar} |-> StoredQuote(t)]
    BY <1>2 DEF Fetched
  <2>2. ASSUME NEW t \in Tickers, bars[t] # NoBar PROVE Good(StoredQuote(t))
    <3>1. bars[t] \in Bar /\ bars[t].day <= Today  BY <2>2 DEF QuotesTypeOK
    <3>2. bars[t].day \in Nat /\ bars[t].price \in Prices /\ bars[t].synthetic \in BOOLEAN
      BY <3>1 DEF Bar
    <3>3. Today \in Nat  BY <1>0, ConstantTypes DEF Today
    <3>4. Today - bars[t].day \in Nat  BY <3>1, <3>2, <3>3
    <3>5. (Today - bars[t].day) * Day \in Nat  BY <3>4, ConstantTypes
    <3> QED  BY <1>0, <3>2, <3>5 DEF StoredQuote, Good, Stamped, Quote, Made
  <2> QED  BY <2>1, <2>2
<1>3. CASE Provider \notin {"demo", "stored"} /\ vendor = "up"
  <2>1. PICK C \in SUBSET wanted : fetched \in [C -> {LicensedQuote(p) : p \in Prices}]
    BY <1>3 DEF Fetched
  <2>2. \A p \in Prices : Good(LicensedQuote(p))
    BY <1>0, ConstantTypes DEF LicensedQuote, Good, Stamped, Quote, Made
  <2> QED  BY <2>1, <2>2
<1>4. CASE Provider \notin {"demo", "stored"} /\ vendor # "up"
  <2>1. fetched = NoRows  BY <1>4 DEF Fetched
  <2> QED  BY <2>1 DEF NoRows
<1> QED  BY <1>1, <1>2, <1>3, <1>4

LEMMA OverGood ==
    ASSUME QuotesTypeOK, NEW rows, GoodRows(rows), NEW wanted, wanted \subseteq Tickers,
           NEW fetched \in Fetched(wanted)
    PROVE  GoodRows(Over(rows, fetched))
<1>1. \A t \in DOMAIN fetched : Good(fetched[t])  BY FetchedGood
<1>2. \A t \in Tickers : Good(Over(rows, fetched)[t])  BY <1>1 DEF GoodRows, Over
<1>3. Over(rows, fetched) \in [Tickers -> Quote \cup {NoQuote}]
  BY <1>2 DEF Over, Good
<1> QED  BY <1>2, <1>3 DEF GoodRows

LEMMA NothingFetched ==
    ASSUME NEW rows, GoodRows(rows)
    PROVE  GoodRows(Over(rows, NoRows)) /\ DOMAIN NoRows \subseteq Tickers
  BY DEF GoodRows, Over, NoRows

(***************************************************************************)
(* A step of the quote cache keeps its types and stamps.                   *)
(***************************************************************************)
LEMMA RefreshGood ==
    ASSUME QuotesTypeOK, GoodRows(quotes), NEW wanted, wanted \subseteq Tickers, Refresh(wanted)
    PROVE  QuotesTypeOK' /\ GoodRows(quotes)'
<1>1. PICK fetched \in Fetched(wanted) : quotes' = Over(quotes, fetched)
  BY DEF Refresh
<1>2. GoodRows(quotes')  BY <1>1, OverGood
<1>3. QuotesTypeOK'  BY <1>2 DEF Refresh, QuotesTypeOK, GoodRows, Today
<1> QED  BY <1>2, <1>3

LEMMA TodayGrows ==
    ASSUME NEW n \in Nat PROVE n \div Day <= (n + 1) \div Day
<1>1. Day \in Nat /\ Day > 0  BY ConstantTypes
<1> QED  BY <1>1

LEMMA QuotesNextGood ==
    ASSUME QuotesTypeOK, GoodRows(quotes), QuotesNext
    PROVE  QuotesTypeOK' /\ GoodRows(quotes)'
<1>1. CASE QuoteRefreshJob  BY <1>1, RefreshGood DEF QuoteRefreshJob
<1>2. CASE AdminRefresh  BY <1>2, RefreshGood DEF AdminRefresh
<1>3. ASSUME NEW wanted \in SUBSET Tickers, ReadQuotes(wanted)
      PROVE  QuotesTypeOK' /\ GoodRows(quotes)'
  <2>1. Stale(wanted) \subseteq Tickers  BY DEF Stale
  <2> QED  BY <1>3, <2>1, RefreshGood DEF ReadQuotes
<1>4. ASSUME NEW t \in Tickers,
             NEW bar \in [day : 0..Today, price : Prices, synthetic : BOOLEAN],
             IngestBar(t, bar)
      PROVE  QuotesTypeOK' /\ GoodRows(quotes)'
  <2>0. Today \in Nat  BY ConstantTypes DEF QuotesTypeOK, Today
  <2>1. bar \in Bar  BY <2>0 DEF Bar
  <2>2. bars' \in [Tickers -> Bar \cup {NoBar}]
    BY <1>4, <2>1 DEF IngestBar, QuotesTypeOK
  <2>3. Today' = Today  BY <1>4 DEF IngestBar, Today
  <2>4. \A u \in Tickers : bars'[u].day <= Today
    BY <1>4 DEF IngestBar, QuotesTypeOK
  <2> QED  BY <1>4, <2>2, <2>3, <2>4 DEF IngestBar, QuotesTypeOK, GoodRows
<1>5. ASSUME NEW state \in Vendors, VendorChanges(state)
      PROVE  QuotesTypeOK' /\ GoodRows(quotes)'
  BY <1>5 DEF VendorChanges, QuotesTypeOK, GoodRows, Today
<1>6. CASE Tick
  <2>1. now \in Nat /\ now' = now + 1 /\ now' \in 0..MaxTime
    BY <1>6, ConstantTypes DEF Tick, QuotesTypeOK
  <2>2. Today \in Nat /\ Today' \in Nat /\ Today <= Today'
    BY <2>1, TodayGrows, ConstantTypes DEF Today
  <2>3. \A t \in Tickers : bars[t].day \in Int
    BY DEF QuotesTypeOK, Bar, NoBar
  <2>4. \A t \in Tickers : bars[t].day <= Today'
    BY <2>2, <2>3 DEF QuotesTypeOK
  <2> QED  BY <1>6, <2>1, <2>4 DEF Tick, QuotesTypeOK, GoodRows
<1> QED  BY <1>1, <1>2, <1>3, <1>4, <1>5, <1>6 DEF QuotesNext

------------------------------------------------------------------------------
(***************************************************************************)
(* The invariant over the alerts.                                          *)
(***************************************************************************)
LEMMA AlertInvInit == Init => AlertInv
<1> SUFFICES ASSUME Init PROVE AlertInv  OBVIOUS
<1>1. QuotesTypeOK
  <2>1. now = 0 /\ 0 \in 0..MaxTime  BY ConstantTypes DEF Init, QuotesInit
  <2>2. Today = 0  BY <2>1, ConstantTypes DEF Today
  <2> QED  BY <2>1, <2>2 DEF Init, QuotesInit, QuotesTypeOK, NoBar, Vendors
<1>2. GoodRows(quotes)
  BY DEF Init, QuotesInit, GoodRows, Good, Stamped, NoQuote
<1>3. alerts \in [Alerts -> Row \cup {Unused, Deleted}] /\ mails \in [Alerts -> 0..MaxCount]
  BY ConstantTypes DEF Init
<1>4. RecordedWasMailed  BY DEF Init, RecordedWasMailed, Stored, Unused
<1>5. sweep = Idle /\ ~ sweep.running  BY DEF Init, Idle
<1> QED  BY <1>1, <1>2, <1>3, <1>4, <1>5 DEF AlertInv, TypeOK, SweepInv

LEMMA RowTypes ==
    ASSUME NEW row \in Row
    PROVE  /\ row.state = "stored" /\ row.ticker \in Tickers /\ row.level \in Levels
           /\ row.active \in BOOLEAN /\ row.email \in BOOLEAN /\ row.count \in Nat
  BY DEF Row

LEMMA StoredRow ==
    ASSUME TypeOK, NEW a \in Alerts
    PROVE  /\ Stored(a) <=> alerts[a] \in Row
           /\ Stored(a) => alerts[a] # Unused /\ alerts[a] # Deleted
<1>1. alerts[a] \in Row \cup {Unused, Deleted}  BY DEF TypeOK
<1>2. Unused.state = "unused" /\ Deleted.state = "deleted"  BY DEF Unused, Deleted
<1> QED  BY <1>1, <1>2, RowTypes DEF Stored

LEMMA SweepTypes ==
    ASSUME TypeOK, sweep.running
    PROVE  /\ sweep \in Sweep
           /\ sweep.todo \subseteq Alerts /\ sweep.fired \subseteq Alerts
           /\ sweep.refreshed \subseteq Tickers
<1>1. sweep \in Sweep
  <2>1. sweep \in Sweep \cup {Idle}  BY DEF TypeOK
  <2>2. sweep # Idle  BY DEF Idle
  <2> QED  BY <2>1, <2>2
<1> QED  BY <1>1 DEF Sweep

(***************************************************************************)
(* A step of the quote cache leaves the alerts and the sweep alone.        *)
(***************************************************************************)
LEMMA QuotesStepKeeps == ASSUME AlertInv, QuotesStep PROVE AlertInv'
<1>1. QuotesTypeOK' /\ GoodRows(quotes)'
  BY QuotesNextGood DEF AlertInv, TypeOK, QuotesStep
<1>2. UNCHANGED <<alerts, sweep, mails>>  BY DEF QuotesStep, alertVars
<1>3. TypeOK'  BY <1>1, <1>2 DEF AlertInv, TypeOK
<1>4. RecordedWasMailed'  BY <1>2 DEF AlertInv, RecordedWasMailed, Stored
<1>5. SweepInv'  BY <1>2 DEF AlertInv, SweepInv, SweptRow, Stored
<1> QED  BY <1>1, <1>3, <1>4, <1>5 DEF AlertInv

(***************************************************************************)
(* The owner's routes change one row, never the count of one that is swept.*)
(***************************************************************************)
LEMMA OwnerKeeps ==
    ASSUME AlertInv, NEW a \in Alerts, NEW row \in Row \cup {Deleted},
           alerts' = [alerts EXCEPT ![a] = row],
           UNCHANGED <<quotesVars, sweep, mails>>,
           \/ alerts[a] = Unused /\ row \in Row /\ row.count = 0
           \/ row = Deleted
           \/ /\ Stored(a) /\ row \in Row
              /\ row.count = alerts[a].count /\ row.email = alerts[a].email
    PROVE  AlertInv'
<1>0. UNCHANGED <<now, vendor, bars, quotes>>  BY DEF quotesVars
<1>1. TypeOK'
  <2>1. QuotesTypeOK'  BY <1>0 DEF AlertInv, TypeOK, QuotesTypeOK, Today
  <2> QED  BY <2>1 DEF AlertInv, TypeOK
<1>2. GoodRows(quotes)'  BY <1>0 DEF AlertInv, GoodRows
<1>3. alerts'[a] = row /\ \A b \in Alerts : b # a => alerts'[b] = alerts[b]
  BY DEF AlertInv, TypeOK
<1>4. mails[a] \in Nat  BY ConstantTypes DEF AlertInv, TypeOK
<1>5. Deleted.state # "stored" /\ Deleted # Unused  BY DEF Deleted, Unused
<1>6. RecordedWasMailed'
  <2> SUFFICES ASSUME NEW b \in Alerts, Stored(b)', alerts'[b].email
               PROVE  alerts'[b].count <= mails[b]
    BY DEF RecordedWasMailed
  <2>1. CASE b # a  BY <1>3, <2>1 DEF AlertInv, RecordedWasMailed, Stored
  <2>2. CASE b = a
    <3>1. row # Deleted  BY <1>3, <1>5, <2>2 DEF Stored
    <3> QED  BY <1>3, <1>4, <2>2, <3>1 DEF AlertInv, RecordedWasMailed
  <2> QED  BY <2>1, <2>2
<1>7. SweepInv'
  <2> SUFFICES ASSUME sweep.running PROVE SweepInv'  BY DEF SweepInv
  <2>1. ASSUME NEW b \in sweep.todo \cup sweep.fired PROVE SweptRow(b)'
    <3>1. b \in Alerts  BY SweepTypes DEF AlertInv
    <3>2. SweptRow(b)  BY DEF AlertInv, SweepInv
    <3>3. CASE b # a  BY <1>3, <3>1, <3>2, <3>3 DEF SweptRow, Stored
    <3>4. CASE b = a
      <4>1. row # Unused  BY <1>5, RowTypes DEF Unused
      <4>2. alerts[a] # Unused  BY <3>2, <3>4 DEF SweptRow
      <4>3. CASE row = Deleted  BY <1>3, <1>5, <3>2, <3>4, <4>3 DEF SweptRow, Stored
      <4>4. CASE row # Deleted
        BY <1>3, <3>2, <3>4, <4>1, <4>2, <4>4 DEF SweptRow, Stored
      <4> QED  BY <4>3, <4>4
    <3> QED  BY <3>3, <3>4
  <2> QED  BY <2>1 DEF AlertInv, SweepInv
<1> QED  BY <1>1, <1>2, <1>6, <1>7 DEF AlertInv

LEMMA CreateKeeps ==
    ASSUME AlertInv, NEW a \in Alerts, NEW row \in NewRow, CreateAlert(a, row)
    PROVE  AlertInv'
<1>0. PICK t \in Tickers, level \in Levels, email \in BOOLEAN :
         row = [state |-> "stored", ticker |-> t, level |-> level, active |-> TRUE,
                email |-> email, count |-> 0]
  BY DEF NewRow
<1>1. row \in Row /\ row.count = 0  BY <1>0 DEF Row
<1> QED  BY <1>1, OwnerKeeps DEF CreateAlert

LEMMA ToggleKeeps ==
    ASSUME AlertInv, NEW a \in Alerts, ToggleAlert(a)
    PROVE  AlertInv'
<1> DEFINE row == [alerts[a] EXCEPT !.active = ~ @]
<1>1. alerts[a] \in Row  BY StoredRow DEF AlertInv, ToggleAlert
<1>2. row \in Row /\ row.count = alerts[a].count /\ row.email = alerts[a].email
  BY <1>1 DEF Row
<1>3. alerts' = [alerts EXCEPT ![a] = row]  BY DEF ToggleAlert
<1> HIDE DEF row
<1> QED  BY <1>2, <1>3, OwnerKeeps DEF ToggleAlert

LEMMA DeleteKeeps ==
    ASSUME AlertInv, NEW a \in Alerts, DeleteAlert(a)
    PROVE  AlertInv'
  BY OwnerKeeps DEF DeleteAlert

(***************************************************************************)
(* A sweep begins with rows that are stored and quotes that are stamped.   *)
(***************************************************************************)
LEMMA BeginKeeps == ASSUME AlertInv, BeginSweep PROVE AlertInv'
<1> DEFINE todo == {a \in Alerts : Active(a)}
           wanted == Stale({alerts[a].ticker : a \in todo})
<1>1. PICK fetched \in IF wanted = {} THEN {NoRows} ELSE Fetched(wanted) :
         sweep' = [running |-> TRUE, quotes |-> Over(quotes, fetched),
                   read |-> [a \in Alerts |-> IF a \in todo THEN alerts[a] ELSE Unused],
                   refreshed |-> DOMAIN fetched, todo |-> todo, fired |-> {}]
  BY DEF BeginSweep
<1>2. \A a \in todo : a \in Alerts /\ Stored(a) /\ alerts[a] \in Row
                       /\ alerts[a] # Unused /\ mails[a] < MaxCount
  BY StoredRow DEF AlertInv, BeginSweep, Active
<1>3. wanted \subseteq Tickers  BY <1>2, RowTypes DEF Stale
<1>4. QuotesTypeOK /\ GoodRows(quotes)  BY DEF AlertInv, TypeOK
<1> HIDE DEF wanted
<1>5. GoodRows(Over(quotes, fetched)) /\ DOMAIN fetched \subseteq Tickers
  <2>1. CASE wanted = {}  BY <1>1, <1>4, <2>1, NothingFetched
  <2>2. CASE wanted # {}  BY <1>1, <1>3, <1>4, <2>2, OverGood, FetchedGood
  <2> QED  BY <2>1, <2>2
<1>6. UNCHANGED <<now, vendor, bars, quotes, alerts, mails>>
  BY DEF BeginSweep, quotesVars
<1>7. sweep' \in Sweep
  <2>1. [a \in Alerts |-> IF a \in todo THEN alerts[a] ELSE Unused]
          \in [Alerts -> Row \cup {Unused}]
    BY <1>2
  <2>2. Over(quotes, fetched) \in [Tickers -> Quote \cup {NoQuote}]
    BY <1>5 DEF GoodRows
  <2> QED  BY <1>1, <1>5, <2>1, <2>2 DEF Sweep
<1>8. TypeOK'
  <2>1. QuotesTypeOK'  BY <1>4, <1>6 DEF QuotesTypeOK, Today
  <2> QED  BY <1>6, <1>7, <2>1 DEF AlertInv, TypeOK
<1>9. GoodRows(quotes)' /\ RecordedWasMailed'
  BY <1>6 DEF AlertInv, GoodRows, RecordedWasMailed, Stored
<1>10. SweepInv'
  <2>1. /\ sweep'.quotes = Over(quotes, fetched) /\ sweep'.todo = todo
        /\ sweep'.fired = {} /\ \A a \in todo : sweep'.read[a] = alerts[a]
    BY <1>1, <1>2
  <2>2. \A a \in todo : SweptRow(a)'
    BY <1>2, <1>6, <2>1 DEF SweptRow, Stored
  <2>3. \A a \in todo : sweep'.read[a].count <= mails'[a] \/ ~ sweep'.read[a].email
    BY <1>2, <1>6, <2>1 DEF AlertInv, RecordedWasMailed
  <2>4. GoodRows(sweep'.quotes)  BY <1>5, <2>1
  <2> HIDE DEF todo
  <2> QED  BY <1>2, <1>6, <2>1, <2>2, <2>3, <2>4 DEF SweepInv
<1> QED  BY <1>8, <1>9, <1>10 DEF AlertInv

(***************************************************************************)
(* The mail of an alert that fires goes out with, and not after, its mark. *)
(***************************************************************************)
LEMMA EvaluateKeeps ==
    ASSUME AlertInv, NEW a \in Alerts, Evaluate(a) PROVE AlertInv'
<1> DEFINE row == sweep.read[a]
           fires == Fires(row, sweep.quotes[row.ticker])
           mailed == fires /\ row.email
<1>0. sweep.running /\ a \in sweep.todo /\ UNCHANGED <<now, vendor, bars, quotes, alerts>>
  BY DEF Evaluate, quotesVars
<1>1. sweep \in Sweep /\ sweep.todo \subseteq Alerts /\ sweep.fired \subseteq Alerts
  BY <1>0, SweepTypes DEF AlertInv
<1>2. sweep' = [sweep EXCEPT !.todo = @ \ {a}, !.fired = IF fires THEN @ \cup {a} ELSE @]
  BY DEF Evaluate
<1>3. mails' = IF mailed THEN [mails EXCEPT ![a] = @ + 1] ELSE mails
  BY DEF Evaluate
<1>4. row \in Row /\ mails[a] < MaxCount /\ (row.count <= mails[a] \/ ~ row.email)
  BY <1>0 DEF AlertInv, SweepInv, SweptRow
<1>5. row.count \in Nat /\ mails[a] \in 0..MaxCount /\ MaxCount \in Nat
  BY <1>4, RowTypes, ConstantTypes DEF AlertInv, TypeOK
<1> HIDE DEF row, fires, mailed
<1>6. /\ sweep' \in Sweep /\ sweep'.running
      /\ sweep'.read = sweep.read /\ sweep'.quotes = sweep.quotes
      /\ sweep'.todo = sweep.todo \ {a}
      /\ sweep'.fired = IF fires THEN sweep.fired \cup {a} ELSE sweep.fired
  BY <1>0, <1>1, <1>2 DEF Sweep
<1>7. /\ mails' \in [Alerts -> 0..MaxCount]
      /\ \A b \in Alerts : mails[b] <= mails'[b] /\ (b # a => mails'[b] = mails[b])
      /\ mailed => mails'[a] = mails[a] + 1
  BY <1>3, <1>4, <1>5 DEF AlertInv, TypeOK
<1>8. TypeOK'
  <2>1. QuotesTypeOK'  BY <1>0 DEF AlertInv, TypeOK, QuotesTypeOK, Today
  <2> QED  BY <1>0, <1>6, <1>7, <2>1 DEF AlertInv, TypeOK
<1>9. GoodRows(quotes)'  BY <1>0 DEF AlertInv, GoodRows
<1>10. RecordedWasMailed'
  <2> SUFFICES ASSUME NEW b \in Alerts, Stored(b), alerts[b].email
               PROVE  alerts[b].count <= mails'[b]
    BY <1>0 DEF RecordedWasMailed, Stored
  <2>1. alerts[b].count <= mails[b]  BY DEF AlertInv, RecordedWasMailed
  <2>2. alerts[b].count \in Nat  BY StoredRow, RowTypes DEF AlertInv
  <2>3. mails[b] \in 0..MaxCount /\ mails'[b] \in 0..MaxCount
    BY <1>7 DEF AlertInv, TypeOK
  <2> QED  BY <1>5, <1>7, <2>1, <2>2, <2>3
<1>11. SweepInv'
  <2>1. GoodRows(sweep'.quotes)  BY <1>0, <1>6 DEF AlertInv, SweepInv
  <2>2. \A b \in sweep'.todo \cup sweep'.fired : SweptRow(b)'
    BY <1>0, <1>6 DEF AlertInv, SweepInv, SweptRow, Stored
  <2>3. \A b \in sweep'.todo : /\ mails'[b] < MaxCount
                               /\ sweep'.read[b].count <= mails'[b] \/ ~ sweep'.read[b].email
    BY <1>0, <1>1, <1>6, <1>7 DEF AlertInv, SweepInv
  <2>4. ASSUME NEW b \in sweep'.fired, sweep'.read[b].email
        PROVE  sweep'.read[b].count + 1 <= mails'[b]
    <3>1. CASE b \in sweep.fired
      <4>1. b \in Alerts /\ sweep.read[b].count + 1 <= mails[b]
        BY <1>0, <1>1, <1>6, <2>4, <3>1 DEF AlertInv, SweepInv
      <4>2. sweep.read[b].count \in Nat
        BY <1>0, <3>1, RowTypes DEF AlertInv, SweepInv, SweptRow
      <4>3. mails[b] \in 0..MaxCount /\ mails'[b] \in 0..MaxCount /\ mails[b] <= mails'[b]
        BY <1>7, <4>1 DEF AlertInv, TypeOK
      <4> QED  BY <1>5, <1>6, <4>1, <4>2, <4>3
    <3>2. CASE b \notin sweep.fired
      <4>1. b = a /\ fires  BY <1>6, <2>4, <3>2
      <4>2. row.email /\ mailed  BY <1>6, <2>4, <4>1 DEF row, mailed
      <4>3. row.count <= mails[a] /\ mails'[a] = mails[a] + 1  BY <1>4, <1>7, <4>2
      <4>4. sweep'.read[b] = row  BY <1>6, <4>1 DEF row
      <4> QED  BY <1>5, <4>1, <4>3, <4>4
    <3> QED  BY <3>1, <3>2
  <2> QED  BY <2>1, <2>2, <2>3, <2>4 DEF SweepInv
<1> QED  BY <1>8, <1>9, <1>10, <1>11 DEF AlertInv

(***************************************************************************)
(* A commit records no more than was mailed.                               *)
(***************************************************************************)
LEMMA CommitKeeps == ASSUME AlertInv, CommitSweep PROVE AlertInv'
<1>0. /\ sweep.running /\ sweep' = Idle /\ UNCHANGED <<now, vendor, bars, mails>>
      /\ sweep \in Sweep /\ sweep.fired \subseteq Alerts /\ sweep.refreshed \subseteq Tickers
  BY SweepTypes DEF CommitSweep, AlertInv
<1>1. SweepInv'
  <2>1. ~ sweep'.running  BY <1>0 DEF Idle
  <2> QED  BY <2>1 DEF SweepInv
<1>2. CASE \A a \in sweep.fired : Stored(a)
  <2>1. /\ alerts' = [a \in Alerts |-> IF a \in sweep.fired THEN Committed(a) ELSE alerts[a]]
        /\ quotes' = [t \in Tickers |-> IF t \in sweep.refreshed THEN sweep.quotes[t]
                                                               ELSE quotes[t]]
    BY <1>2 DEF CommitSweep
  <2>2. GoodRows(quotes)'
    <3>1. GoodRows(sweep.quotes) /\ GoodRows(quotes)  BY <1>0 DEF AlertInv, SweepInv
    <3> QED  BY <2>1, <3>1 DEF GoodRows
  <2>3. ASSUME NEW a \in sweep.fired
        PROVE  /\ Committed(a) \in Row
               /\ Committed(a).email => Committed(a).count <= mails[a]
    <3>1. a \in Alerts /\ alerts[a] \in Row  BY <1>0, <1>2, StoredRow DEF AlertInv
    <3>2. SweptRow(a) /\ (sweep.read[a].email => sweep.read[a].count + 1 <= mails[a])
      BY <1>0 DEF AlertInv, SweepInv
    <3>3. /\ sweep.read[a].count \in Nat
          /\ alerts[a].email = sweep.read[a].email
      BY <1>2, <3>2, RowTypes DEF SweptRow
    <3>4. /\ Committed(a) \in Row
          /\ Committed(a).count = sweep.read[a].count + 1
          /\ Committed(a).email = alerts[a].email
      BY <3>1, <3>3 DEF Committed, Row
    <3> QED  BY <3>2, <3>3, <3>4
  <2>4. TypeOK'
    <3>1. QuotesTypeOK'  BY <1>0, <2>2 DEF AlertInv, TypeOK, QuotesTypeOK, Today, GoodRows
    <3>2. alerts' \in [Alerts -> Row \cup {Unused, Deleted}]
      BY <2>1, <2>3 DEF AlertInv, TypeOK
    <3> QED  BY <1>0, <3>1, <3>2 DEF AlertInv, TypeOK
  <2>5. RecordedWasMailed'
    BY <1>0, <2>1, <2>3 DEF AlertInv, RecordedWasMailed, Stored
  <2> QED  BY <1>1, <2>2, <2>4, <2>5 DEF AlertInv
<1>3. CASE ~ \A a \in sweep.fired : Stored(a)
  <2>1. UNCHANGED <<alerts, quotes>>  BY <1>3 DEF CommitSweep
  <2>2. TypeOK'
    BY <1>0, <2>1 DEF AlertInv, TypeOK, QuotesTypeOK, Today
  <2>3. GoodRows(quotes)' /\ RecordedWasMailed'
    BY <1>0, <2>1 DEF AlertInv, GoodRows, RecordedWasMailed, Stored
  <2> QED  BY <1>1, <2>2, <2>3 DEF AlertInv
<1> QED  BY <1>2, <1>3

LEMMA CrashKeeps == ASSUME AlertInv, Crash PROVE AlertInv'
<1>1. sweep' = Idle /\ ~ sweep'.running /\ UNCHANGED <<now, vendor, bars, quotes, alerts, mails>>
  BY DEF Crash, Idle, quotesVars
<1>2. TypeOK'  BY <1>1 DEF AlertInv, TypeOK, QuotesTypeOK, Today
<1>3. GoodRows(quotes)' /\ RecordedWasMailed'
  BY <1>1 DEF AlertInv, GoodRows, RecordedWasMailed, Stored
<1> QED  BY <1>1, <1>2, <1>3 DEF AlertInv, SweepInv

LEMMA AlertInvStep == AlertInv /\ [Next]_vars => AlertInv'
<1> SUFFICES ASSUME AlertInv, [Next]_vars PROVE AlertInv'  OBVIOUS
<1>1. CASE QuotesStep  BY <1>1, QuotesStepKeeps
<1>2. ASSUME NEW a \in Alerts, NEW row \in NewRow, CreateAlert(a, row) PROVE AlertInv'
  BY <1>2, CreateKeeps
<1>3. ASSUME NEW a \in Alerts, ToggleAlert(a) PROVE AlertInv'  BY <1>3, ToggleKeeps
<1>4. ASSUME NEW a \in Alerts, DeleteAlert(a) PROVE AlertInv'  BY <1>4, DeleteKeeps
<1>5. CASE BeginSweep  BY <1>5, BeginKeeps
<1>6. ASSUME NEW a \in Alerts, Evaluate(a) PROVE AlertInv'  BY <1>6, EvaluateKeeps
<1>7. CASE CommitSweep  BY <1>7, CommitKeeps
<1>8. CASE Crash  BY <1>8, CrashKeeps
<1>9. CASE UNCHANGED vars
  BY <1>9 DEF vars, quotesVars, alertVars, AlertInv, TypeOK, QuotesTypeOK, Today, GoodRows,
              RecordedWasMailed, SweepInv, SweptRow, Stored
<1> QED  BY <1>1, <1>2, <1>3, <1>4, <1>5, <1>6, <1>7, <1>8, <1>9 DEF Next

LEMMA AlertInvHolds == Spec => []AlertInv
  BY AlertInvInit, AlertInvStep, PTL DEF Spec

------------------------------------------------------------------------------

\* The rows keep their types, a generated price is shown as DEMO DATA, and a
\* recorded trigger of an alert by e-mail was mailed: evaluate_all and the
\* providers of quotes.py, whatever requests run meanwhile.
THEOREM AlertsCorrect == Spec => [](TypeOK /\ GeneratedIsLabelled /\ RecordedWasMailed)
<1>1. AlertInv => GeneratedIsLabelled
  <2> SUFFICES ASSUME AlertInv, NEW t \in Tickers, Has(t), quotes[t].made = "GENERATED"
               PROVE  Badge(quotes[t]) = "DEMO DATA"
    BY DEF GeneratedIsLabelled
  <2>1. Good(quotes[t])  BY DEF AlertInv, GoodRows
  <2> QED  BY <2>1 DEF Good, Stamped, Badge, Has
<1>2. AlertInv => TypeOK /\ GeneratedIsLabelled /\ RecordedWasMailed
  BY <1>1 DEF AlertInv
<1> QED  BY <1>2, AlertInvHolds, PTL

\* The rows of alerts, the quotes and the sweep keep their types.
COROLLARY AlertsTyped == Spec => []TypeOK
<1> QED  BY AlertsCorrect, PTL

\* evaluate_all: a trigger that is recorded was mailed, whatever crashes and
\* rollbacks come between the mail and the commit.
COROLLARY RecordsAreTrue == Spec => []RecordedWasMailed
<1> QED  BY AlertsCorrect, PTL

\* No mail goes out for a generated price: evaluate_alert returns before it
\* compares one, and no row loses its flag between the fetch and the mail.
THEOREM DemoStaysSilent == Spec => NeverFiresOnDemo
<1> DEFINE Silent == \A a \in Alerts : mails'[a] # mails[a] =>
                        /\ sweep.read[a].ticker \in Tickers
                        /\ sweep.quotes[sweep.read[a].ticker].made # "GENERATED"
<1>1. AlertInv /\ [Next]_vars => [Silent]_vars
  <2> SUFFICES ASSUME AlertInv, [Next]_vars PROVE Silent  OBVIOUS
  <2>1. ASSUME NEW a \in Alerts, Evaluate(a) PROVE Silent
    <3> SUFFICES ASSUME NEW b \in Alerts, mails'[b] # mails[b]
                 PROVE  /\ sweep.read[b].ticker \in Tickers
                        /\ sweep.quotes[sweep.read[b].ticker].made # "GENERATED"
      OBVIOUS
    <3>1. b = a /\ Fires(sweep.read[a], sweep.quotes[sweep.read[a].ticker])
      BY <2>1 DEF Evaluate, AlertInv, TypeOK
    <3>2. sweep.running /\ SweptRow(a) /\ GoodRows(sweep.quotes)
      BY <2>1 DEF Evaluate, AlertInv, SweepInv
    <3>3. sweep.read[a].ticker \in Tickers  BY <3>2, RowTypes DEF SweptRow
    <3> QED  BY <3>1, <3>2, <3>3 DEF GoodRows, Good, Stamped, Fires
  <2>2. CASE UNCHANGED mails  BY <2>2
  <2> QED
    BY <2>1, <2>2 DEF Next, QuotesStep, CreateAlert, ToggleAlert, DeleteAlert, BeginSweep,
                      CommitSweep, Crash, vars, alertVars
<1> HIDE DEF Silent
<1>2. Spec => [][Silent]_vars  BY <1>1, AlertInvHolds, PTL DEF Spec
<1> QED  BY <1>2 DEF NeverFiresOnDemo, Silent

\* A sweep that overlaps its owner never undoes a pause, a resumption or a
\* deletion: evaluate_all writes back the trigger's columns alone.
THEOREM OwnerIsObeyed == Spec => OwnerDecides
<1> DEFINE Obeyed(a) ==
        /\ Stored(a) /\ Stored(a)' /\ alerts'[a].active # alerts[a].active => ToggleAlert(a)
        /\ alerts[a] = Deleted => alerts'[a] = Deleted
<1>1. AlertInv /\ [Next]_vars => [\A a \in Alerts : Obeyed(a)]_vars
  <2> SUFFICES ASSUME AlertInv, [Next]_vars, NEW a \in Alerts PROVE Obeyed(a)  OBVIOUS
  <2>1. CASE UNCHANGED alerts  BY <2>1
  <2>2. ASSUME NEW b \in Alerts, NEW row \in NewRow, CreateAlert(b, row) PROVE Obeyed(a)
    <3>1. CASE a = b  BY <2>2, <3>1 DEF CreateAlert, Stored, Unused, Deleted
    <3>2. CASE a # b  BY <2>2, <3>2 DEF CreateAlert, AlertInv, TypeOK
    <3> QED  BY <3>1, <3>2
  <2>3. ASSUME NEW b \in Alerts, ToggleAlert(b) PROVE Obeyed(a)
    <3>1. CASE a = b  BY <2>3, <3>1, StoredRow DEF ToggleAlert, AlertInv
    <3>2. CASE a # b  BY <2>3, <3>2 DEF ToggleAlert, AlertInv, TypeOK
    <3> QED  BY <3>1, <3>2
  <2>4. ASSUME NEW b \in Alerts, DeleteAlert(b) PROVE Obeyed(a)
    <3>1. CASE a = b
      <4>1. alerts'[a] = Deleted  BY <2>4, <3>1 DEF DeleteAlert, AlertInv, TypeOK
      <4> QED  BY <4>1 DEF Stored, Deleted
    <3>2. CASE a # b  BY <2>4, <3>2 DEF DeleteAlert, AlertInv, TypeOK
    <3> QED  BY <3>1, <3>2
  <2>5. ASSUME CommitSweep, ~ UNCHANGED alerts PROVE Obeyed(a)
    <3>1. /\ \A b \in sweep.fired : Stored(b)
          /\ alerts'[a] = IF a \in sweep.fired THEN Committed(a) ELSE alerts[a]
      BY <2>5 DEF CommitSweep
    <3>2. CASE a \in sweep.fired
      <4>1. alerts[a] \in Row /\ alerts[a] # Deleted  BY <3>1, <3>2, StoredRow DEF AlertInv
      <4>2. Committed(a).active = alerts[a].active  BY <4>1 DEF Committed, Row
      <4> QED  BY <3>1, <3>2, <4>1, <4>2
    <3>3. CASE a \notin sweep.fired  BY <3>1, <3>3
    <3> QED  BY <3>2, <3>3
  <2> QED
    BY <2>1, <2>2, <2>3, <2>4, <2>5
    DEF Next, QuotesStep, BeginSweep, Evaluate, Crash, vars, alertVars
<1> HIDE DEF Obeyed
<1>2. Spec => [][\A a \in Alerts : Obeyed(a)]_vars  BY <1>1, AlertInvHolds, PTL DEF Spec
<1> QED  BY <1>2 DEF OwnerDecides, Obeyed

------------------------------------------------------------------------------
(* An outage brings no generated price in.  A sweep that runs while a feed  *)
(* is configured was begun with it, for the configuration is read once.     *)

NotGenerated(q) == q.made # "GENERATED"

FeedInv ==
    sweep.running /\ vendor # "none" =>
        \A t \in sweep.refreshed : NotGenerated(sweep.quotes[t])

LEMMA FeedNotGenerated ==
    ASSUME vendor # "none", NEW wanted, NEW fetched \in Fetched(wanted)
    PROVE  \A t \in DOMAIN fetched : NotGenerated(fetched[t])
<1>1. Provider = "licensed"  BY DEF Provider
<1>2. CASE vendor = "up"
  <2>1. PICK C \in SUBSET wanted : fetched \in [C -> {LicensedQuote(p) : p \in Prices}]
    BY <1>1, <1>2 DEF Fetched
  <2> QED  BY <2>1 DEF LicensedQuote, NotGenerated
<1>3. CASE vendor # "up"  BY <1>1, <1>3 DEF Fetched, NoRows
<1> QED  BY <1>2, <1>3

LEMMA FeedInvStep == AlertInv /\ FeedInv /\ [Next]_vars => FeedInv'
<1> SUFFICES ASSUME AlertInv, FeedInv, [Next]_vars, sweep'.running, vendor' # "none",
                    NEW t \in sweep'.refreshed
             PROVE  NotGenerated(sweep'.quotes[t])
  BY DEF FeedInv, NotGenerated
<1>1. sweep \in Sweep \cup {Idle} /\ quotes \in [Tickers -> Quote \cup {NoQuote}]
  BY DEF AlertInv, TypeOK, QuotesTypeOK
<1>2. CASE BeginSweep
  <2> DEFINE todo == {a \in Alerts : Active(a)}
             wanted == Stale({alerts[a].ticker : a \in todo})
  <2>1. PICK fetched \in IF wanted = {} THEN {NoRows} ELSE Fetched(wanted) :
           sweep' = [running |-> TRUE, quotes |-> Over(quotes, fetched),
                     read |-> [a \in Alerts |-> IF a \in todo THEN alerts[a] ELSE Unused],
                     refreshed |-> DOMAIN fetched, todo |-> todo, fired |-> {}]
    BY <1>2 DEF BeginSweep
  <2> HIDE DEF wanted
  <2>2. sweep'.quotes = Over(quotes, fetched) /\ sweep'.refreshed = DOMAIN fetched  BY <2>1
  <2>3. t \in DOMAIN fetched /\ fetched # NoRows  BY <2>2 DEF NoRows
  <2>4. fetched \in Fetched(wanted)  BY <2>1, <2>3
  <2>5. vendor # "none"  BY <1>2 DEF BeginSweep, quotesVars
  <2>6. NotGenerated(fetched[t])  BY <2>3, <2>4, <2>5, FeedNotGenerated
  <2>7. t \in Tickers
    <3>1. sweep' \in Sweep \cup {Idle}  BY <1>2, BeginKeeps DEF AlertInv, TypeOK
    <3>2. sweep' # Idle  BY DEF Idle
    <3>3. sweep'.refreshed \in SUBSET Tickers  BY <3>1, <3>2 DEF Sweep
    <3> QED  BY <3>3
  <2> QED  BY <2>2, <2>3, <2>6, <2>7 DEF Over
<1>3. ASSUME NEW a \in Alerts, Evaluate(a) PROVE NotGenerated(sweep'.quotes[t])
  <2>1. sweep.running /\ sweep'.quotes = sweep.quotes /\ sweep'.refreshed = sweep.refreshed
        /\ vendor' = vendor
    BY <1>1, <1>3 DEF Evaluate, Sweep, Idle, quotesVars
  <2> QED  BY <2>1 DEF FeedInv
<1>4. CASE CommitSweep \/ Crash  BY <1>4 DEF CommitSweep, Crash, Idle
<1>5. CASE QuotesStep
  <2>1. UNCHANGED sweep /\ (vendor = "none") = (vendor' = "none")
    BY <1>5 DEF QuotesStep, alertVars
  <2> QED  BY <2>1 DEF FeedInv
<1>6. CASE UNCHANGED <<sweep, vendor>>  BY <1>6 DEF FeedInv
<1> QED
  BY <1>2, <1>3, <1>4, <1>5, <1>6
  DEF Next, CreateAlert, ToggleAlert, DeleteAlert, vars, quotesVars, alertVars

\* LicensedQuoteProvider: while a feed is configured, up or down, no refresh, page
\* or sweep puts a generated price into the cache.
THEOREM OutageBringsNoDemo == Spec => NeverDowngraded
<1> DEFINE Kept(t) == vendor # "none" /\ quotes'[t] # quotes[t] => NotGenerated(quotes'[t])
           AllKept == \A t \in Tickers : Kept(t)
<1>1. AlertInv /\ FeedInv /\ [Next]_vars => [AllKept]_quotesVars
  <2> SUFFICES ASSUME AlertInv, FeedInv, [Next]_vars, NEW t \in Tickers,
                      vendor # "none", quotes'[t] # quotes[t]
               PROVE  NotGenerated(quotes'[t])
    OBVIOUS
  <2>1. CASE CommitSweep
    <3>1. quotes'[t] = sweep.quotes[t] /\ t \in sweep.refreshed /\ sweep.running
      BY <2>1 DEF CommitSweep
    <3> QED  BY <3>1 DEF FeedInv
  <2>2. ASSUME NEW wanted, Refresh(wanted) PROVE NotGenerated(quotes'[t])
    <3>1. PICK fetched \in Fetched(wanted) : quotes' = Over(quotes, fetched)
      BY <2>2 DEF Refresh
    <3>2. t \in DOMAIN fetched /\ quotes'[t] = fetched[t]  BY <3>1 DEF Over
    <3> QED  BY <3>2, FeedNotGenerated
  <2>3. ~ UNCHANGED quotes  OBVIOUS
  <2> QED
    BY <2>1, <2>2, <2>3
    DEF Next, QuotesStep, QuotesNext, QuoteRefreshJob, AdminRefresh, ReadQuotes, IngestBar,
        VendorChanges, Tick, CreateAlert, ToggleAlert, DeleteAlert, BeginSweep, Evaluate,
        Crash, vars, quotesVars
<1>2. Init => FeedInv  BY DEF Init, FeedInv, Idle
<1> HIDE DEF AllKept
<1>3. Spec => [][AllKept]_quotesVars
  BY <1>1, <1>2, FeedInvStep, AlertInvHolds, PTL DEF Spec
<1> QED  BY <1>3 DEF NeverDowngraded, AllKept, NotGenerated
==============================================================================
