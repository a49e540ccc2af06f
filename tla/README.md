# Verification of GMG Investment Intelligence

TLA+ specifications of the stateful core of this repository (`src/backend`), the
TLC runs that check them and the TLAPS proofs about them. `PROJECT.json` lists
the runs, the source lines behind every definition, the findings and the
hazards the properties are for.

## 1. The system

A FastAPI application with one database (PostgreSQL in the deployment of
`docker-compose.yml`, SQLite by default), server-rendered pages, and an
APScheduler thread with five jobs. There is no other process, queue or cache:
**all state that matters is rows**, and all concurrency is between database
sessions. `core/database.py` opens one session per request or job with
`autoflush=False` and `expire_on_commit=False`; nothing anywhere takes a row
lock or a version column, and SQLAlchemy's UPDATE names only columns whose
value changed. So every handler is "read, decide in memory, commit absolute
values", and two of them may overlap.

| Component | State it keeps | Operations | Talks to |
|---|---|---|---|
| Billing (`billing/`, `routes_billing`) | subscription rows, payment rows | trial, checkout, cancel, resume, admin confirmation, gateway callback, daily expiry, entitlement check | routes, scheduler, accounts, e-mail |
| Accounts (`accounts/`, `routes_auth`, `auth_deps`) | users, sessions with an epoch, one-time tokens, login attempts | sign-up, login with lockout, verification, reset, change of password, roles, suspension | billing (trial at sign-up), e-mail |
| Quotes (`market/quotes.py`, `live_providers.py`) | one cached quote per ticker, data-source registry | refresh from licensed, stored or demo provider; read with a maximum age; freshness label | ingestion (bars), pages, alerts, scheduler |
| Subscriber alerts (`notify/user_alerts.py`) | alert rows with trigger counts | create, pause, delete, sweep every 15 minutes | quotes, e-mail |
| Paper trading (`portfolio/paper_trading.py`) | cash, positions, trade ledger, daily snapshots | BUY, SELL, SHORT, COVER, close, mark to market, snapshot, backfill | stored bars, API and page routes, scheduler |
| Theses (`research/thesis.py`, `reports/alerts.py`, `reports/evaluation.py`) | theses with versions, recommendations, internal alerts | weekly upsert, price checks, notification, grading | research desk, bars, weekly pipeline |
| Research desk (`research/pipeline.py`, `agents.py`, `evidence.py`, `llm.py`, `portfolio/sizing.py`) | the call budget of a run, its analyses and decisions | score the universe, rank, five agents per name, decide; size a position; rate and value a name | analytics, language model, theses, portfolio |
| Ingestion (`data/ingestion.py`, providers) | bars, statements, news, disclosures | upsert by confidence, de-duplication, provider fallback | external feeds |
| Backtesting (`backtesting/`) | a simulation and its stored result | walk the calendar through a point-in-time view, rebalance | bars, statements |
| Weekly pipeline, scheduler (`jobs/`) | none of their own | steps isolated from one another; cron jobs | everything above |
| Analytics (`analytics/`, `core/data_quality.py`) | none | figures, indicators, factors, scores, valuation, where any input may be missing | bars, statements |
| Risk, screener, reports, market overview | none | read-only views of stored figures | |

What is hard here: requests overlapping on one row (lost updates, stale
checks); the expiry and alert jobs running beside requests; gateway callbacks
repeated, late or out of order; mail sent before a commit that may fail; a feed
that fails while its last answer is still cached; figures of generated origin
that must never pass for market data; long sequences of legal orders whose
ledger must still explain the book. The list, line by line, is `hazards` in
`PROJECT.json`.

What makes each component correct:

* **Billing** - access is exactly "the deadline has not passed"; what was paid
  for is never withheld nor counted twice; confirmation outlives callbacks;
  lapsed rows are retired.
* **Quotes** - generated prices carry their label; an outage does not bring
  them in; the label tells the kind and age of a price.
* **Alerts** - no mail for generated prices; a recorded trigger was mailed; the
  owner's decision about an alert stands.
* **Paper trading** - no overdraft, no sale of what is not held; the ledger
  replays to the book; profits add up to the gain.
* **Accounts** - a cookie works only with the present password, what was revoked
  stays revoked, the lockout bounds guesses, the last administrator is not lost
  but to two who change each other.
* **Theses** - one open thesis per name and direction, levels that are replaced
  are archived, a disproved thesis stays so, one verdict per recommendation, and
  in the end a verdict for each; alerts sent once, marks of delivery true.
* **Research desk** - the model's words move a decision by a notch at most, calls
  stay within the budget, invented data leads to no position, sizes bought one
  after another keep the limits but for what the orders cost, a rating claims no
  more than its inputs.
* **Ingestion and backtesting** - a stored bar stays and loses no confidence, and
  no provider replaces it by a record that is not better; nothing is read before
  it was published; weights stay under the cap and cash follows from the trades.

## 2. The modules

    Entitlement            abstract: one deadline per customer
      ^ refines
    Billing                subscriptions, payments, overlapping requests
      MCBilling, BillingProofs
    PaperTrading           orders, ledger, two valuations
      PaperOrders          ... placed by requests that overlap
      MCPaperTrading, MCPaperOrders, PaperTradingProofs
    Quotes                 providers, cache, labels
      UserAlerts           sweeps, owners and mail over Quotes
      MCUserAlerts, UserAlertsProofs
    Accounts               users, sessions, one-time links, lockout
      MCAccounts, AccountsProofs

    ThesisLevels           strategy, direction, status, price levels of a thesis
      Research             weekly runs, sessions, alerts, grading
      MCResearch, ResearchProofs

    Scoring                missing values, weighted parts, confidence
      Fundamentals, Indicators - Technicals, Factors, Valuation
      AlphaScore - Rating  the master score, the labels published
      Analysis             the engines put together
        Evidence - Agents  what an agent may say, what it says, the decision
    Sizing                 the stages of sizing
      Desk                 runs, language model, pages, portfolio
      MCDesk, DeskProofs       (over Agents, Rating, Valuation, Sizing)

    Ingestion              providers, upserts
    PointInTime            the view of a day
      Strategies           five strategies (over Analysis)
      Execution            trades toward target weights
    Performance            returns, drawdown, trade statistics
      History              ingestion beside backtests (over all of these)
      MCHistory, HistoryProofs

    Folding                lemmas on sums and folds, which the proofs of
                           PaperTrading, Desk and History instantiate

### Billing

`subs[u]` are the rows of one user, oldest first, with the three columns that
decide anything (`status`, `trial_ends_at`, `current_period_end`); `payments`
the payment rows. A request is two steps: the action named for the route reads
the tables and computes what it will write (`Begin`), and `Commit` writes the
columns that differ from what was read over whatever is stored by then, and
appends new rows. This is where overlapping requests lose updates. `Overlap`
bounds how many requests may run beside another; 0 makes them serial.

`ConfirmPayment` and `Webhook` keep a difference of the code: the administrator
prolongs the row `get_subscription` selects, the callback the newest one. A
confirmation also replaces `external_id`, by which a callback would look the
payment up; a model payment is `atGateway` as long as callbacks can find it.
This takes for granted that the reference an administrator types is not the
gateway's own identifier of that payment. The gateway is external and reports
any status of `GatewayStatuses`, any number of times.

`Entitlement` is the promise to a customer: a deadline that moves only forward,
by a trial once it has passed or by a payment, and access until then. The
mapping is `until <- the newest row's current_period_end`.

### PaperTrading and PaperOrders

`book` is cash and positions, `trades` the ledger, `bars` the latest close per
ticker. `ExecuteTrade` is `execute_trade` as a whole: the fill against the
trader, the tests, the new book and the ledger row. `Filled`, `Accepts` and
`TradeOf` are operators over a book, so that `PaperOrders` can split the same
order into a read (`PlaceOrder`) and a write (`Commit`) of absolute values.
`TotalValue` is `mark_to_market`, over the stored positions; `ReplayValue` is
`backfill_snapshots`, a fold over the ledger.

### Quotes and UserAlerts

A quote has the columns the label is computed from (`is_demo`,
`delayed_minutes`, `retrieved_at`) and one the program does not have: `made`,
how the price came about. `Refresh` overwrites the fetched rows, `Fetched` is
what a provider may return, including a vendor that covers only some tickers or
fails. `IngestBar` covers only what quotes see of ingestion: a newer bar, or one
of the same day that is replaced because it was less trusted. `Badge` is
`quote_freshness`.

`UserAlerts` adds the alert rows, the sweep and the mails. The sweep reads the
active alerts and refreshes stale quotes (flushed, so locked from then on),
evaluates alert after alert in any order, mails at once, and commits at the end
(`CommitSweep`), unless an alert it would update was deleted: then all is rolled
back. `Crash` stops it at any point. In between the owners act, other refreshes
commit, bars arrive and the feed goes down. Mails are counted when they are
handed to `send_email`, which never raises.

### Accounts

`users`, `sessions`, `tokens` and `failures` are the rows of the tables
`users`, `user_sessions`, `one_time_tokens` and the failed part of
`login_attempts`. A request is `Begin` and `Commit`, as in Billing; what it has
decided is an effect: accounts `created`, accounts `changed` (as read and as
written, of which `Commit` writes the columns that differ), sessions to
`revoke`, links to `use`, a new `session`, a new `token`, a `failed` attempt.
Sign-up reads that an address is free; if it was taken meanwhile the unique
column refuses the row and the request fails as a whole (`Taken`). The first
account, or one of the configured address, becomes an administrator.

`LastAdminLostToDeposed` says how far the rule of `change_role` goes, that nobody
changes their own role "because that is how a system ends up with none". Two
administrators who demote each other at once leave none, as neither request looks
again: TLC violates `AdminRemains` in `AccountAdmins` if it is made an invariant.
The property is that there is no other way: the commit that takes the last one
away is of a request whose own administrator has been deposed since it was let
in. `actor` is that administrator, which is history.

`ChangePassword` changes nothing. The route passes the new password as
`password` (`routes_auth.py:410`) and the service takes `new_password`
(`accounts/service.py:430`), so that each request ends in a `TypeError` before it
reads or writes; passwords change by a reset only.

The password recorded with a session is history, which `SessionsFollowPassword`
needs and the program does not have. `RaiseCost` is a restart with a higher cost
of the password hash, after which a sign-in replaces the hash it checked. The
rate limiter and the anti-forgery token may refuse a request, which is then no
step; the trial a sign-up starts belongs to Billing.

`Serial` is a set of operations no two of which overlap. It is an assumption
about use, not something the program enforces: a person does not reset a
password in two windows in the same instant. Sign-ins are outside it in both runs
and overlap everything; in `AccountAdmins` changes of role are outside it too.

### Research

`theses`, `versions`, `calls` (recommendations) and `alerts` are tables; a thesis
is known by its reference number, its place in the sequence. `work[w]` is the
open session of the weekly job or of a visitor who has one name researched:
what it has read and what it will write. `stage` is the step of `jobs/weekly.py`
the job is at. Each step is a session of its own; `Fail` rolls one back and the
job goes on, as `_step` does, and `Crash` ends both sessions and the job.

`Consider` is `upsert_thesis` for one name: it looks for an open thesis of the
name and direction, and updates it or notes that there is none. `OpenThesis` is
the count of rows from which the new reference is made, a query of its own.
`CommitResearch` writes the columns that changed over the rows as they are by
then, archives what it replaced, and is refused when the reference or an archived
version exists meanwhile: the two unique columns are all that keeps sessions
apart. `CheckThesis` compares a thesis with the price of the day, raises alerts
unless `_exists` finds the like, and stops a thesis only together with a new
alert; `Dispatch` sends what is not marked before the session that marks it
commits. `Grade` is `evaluate_recommendations`. What the agents conclude is
chosen freely out of `Analyses`; how they come to it is in Desk.

`clean` is history: no two sessions were open at once so far. Two properties
need it, as a second open thesis is what two sessions that find none produce.

### Desk and the rules below it

`stored` is what is stored of every name (a *dossier*: bars, statements, events
and their ages), one of the given `Universes`. The engines are operators:
`AnalyzeStock` puts `Fundamentals`, `Technicals`, `Factors` and `AlphaScore`
together as `analytics/service.py` does, on whole numbers that round down, with
`NA` for a value that is missing. A score is the weighted mean of the parts that
are known, its coverage how much of the weight they have.

A run is `BeginRun`, `Score` or `SkipName` per name, `Rank`, and for every name
of the list five calls of `complete` (`Ask` four times, `Decide`), which share
`used` and `CallLimit`. An answer may be an error, may carry no tagged claim, or
may state a decision; `Output` falls back to `Compose`, what the agents say
without a model. `DeriveAction` accepts a stated decision only next to the
computed one. A name that raises is passed over (`FailName`). The decision keeps
the levels of the thesis, from ThesisLevels.

Between runs an analyst reads the page of a name (`OpenPage`: rating and
valuation), asks for a size (`Advise`: the inputs `routes_api.py` gathers and the
stages of `Sizing`), buys it (`Follow`), buys a quantity of their own (`Order`) or
sells (`Exit`). The portfolio is kept in money and shares. An order is filled
against the trader at the latest price and pays commission (`CostOf`,
`ProceedsOf`), is refused when the cash does not pay for it, and changes what
everything is worth together (`TotalValue`), of which the weights are shares. An
order names no price of its own, and shorts are left to PaperTrading. Money is in
whole units and costs are rounded down to one.

`LimitsHold` says how far the stages of `size_position` keep the limits of
`config/risk.yaml` when the advice is bought. They do not keep them exactly. The
weights leave nothing for costs, so that a purchase at the cash floor leaves less
than the buffer of "at least 5% cash" (`config/risk.yaml:12`), and one at the limit
of a sector or of speculation passes it, as the same shares weigh more in a
portfolio that has paid. The largest purchase is a fifth of the portfolio and costs
35 hundredths of a percent, so `Slack` is 7 hundredths of a percent: at least 4.93%
of cash remain. With a `Slack` of 0 TLC finds a purchase that misses the buffer.
Three steps are excepted, as the code lets a limit be passed there by any amount:

* `Moved`: a position keeps the sector it was opened in, sizing looks up that of
  today, and the name has changed it in between;
* `Relabelled`: a position takes the strategy of its last purchase (`Grown`), and
  sizing counts the purchase but not what was held under another label;
* `Repriced`: the advised weight is divided by the entry price of the thesis
  (`sizing.py:330`), and the shares are filled at a latest price above it.

All three came up in the attempt to prove the property without them.

Where several analyses have the same score, `BestFirst` leaves their order open;
the code keeps the order of the universe.

### History and the modules below it

`bars[n]` maps days to bars, `statements[n]` periods to statements, `items` is the set
of keys of news and disclosures. `Call` is the provider chain: the first that answers
with something. `StoreBars` is the upsert of `ingest_prices_for_ticker`. Bars have a
second writer: `ImportBulletin` is `ingest_bulletin`, which the script
`import_egx_bulletin.py` runs on a file of the Exchange. It writes over whatever is
stored of the day, always with confidence HIGH, and never asks `_should_replace`.
`ConfidenceNeverDrops` therefore promises less of it: no writer takes a bar away or
lowers its confidence, a provider's record replaces a bar of its own confidence only
if it is more complete, and a bulletin's always does, emptying fields that were filled
if it has none (`tests/test_egx_bulletin.py:197` asks for the update).
`StoreStatements` is the upsert of fundamentals, which overwrites whatever is stored,
and `IngestItems` the two feeds, whose session does not flush between rows. What
providers answer is data of the instance.

A backtest is `StartTest`, `Walk` once per trading day, `Finish`. A day executes
yesterday's decision at the price of the day, values the book and, on a day of
rebalancing, decides. A strategy sees `Answers(View(bars, statements, day))` and
nothing else; ingestion commits in between. `Targets` is `target_weights`: the
ranking, the raw shares, and ten rounds in which what is over the cap is handed to the
others. `Rebalance` sells, then buys the greatest weight first with the cash there is,
at the latest close of the day. The docstring of `engine.py` speaks of fills at the
open of the day after the decision; `_rebalance` reads `view.price`, which is a close,
and the model follows the code. No property is about which of the two a fill should
use. Shares are whole and money is in whole units: the code's fractions are rounded
down at each step of `Execution`, and a holding keeps what was paid for it, which is
its average price times its quantity. `Performance` turns curve, index and trades into
what the report says.

### Databases

The models describe PostgreSQL at its default isolation, where a reader does not
block a writer. SQLite lets fewer of these interleavings through.

## 3. The runs

| Run | Result | What it asks |
|---|---|---|
| `BillingSerial` | holds | access is the deadline; paid time honoured and not sold twice; a confirmation outlives callbacks; `Entitlement` is implemented |
| `BillingOverlap` | holds | whatever updates are lost, nobody gains time, and lapsed rows are retired in the end |
| `BillingExpiryRace` | **violated** | the expiry job "only tidies" |
| `PaperTrading` | holds | no overdraft; ledger and book agree; profits reconcile |
| `PaperOversold` | **violated** | no more is sold than was bought |
| `UserAlerts` | holds | generated prices labelled, never brought in by an outage, never mailed about; recorded triggers mailed; owners obeyed |
| `AccountSessions` | holds | working cookies belong to the present password; lockout bounds guesses; one reset link works |
| `AccountAdmins` | holds | the last administrator is lost only to a request of one who was deposed meanwhile; what stopped working stays so |
| `ResearchWeeks` | holds | theses single, archived, disproved for good; verdicts final; alerts sent once and truly marked; every call judged in the end |
| `Desk` | holds | words move a notch; the budget; invented data not sized; limits kept, but for what orders cost, by sizes bought in turn among other orders; ratings and fair values grounded |
| `DeskOverweight` | **violated** | no name above the largest weight of a position |
| `History` | holds | bars stay and lose no confidence; decisions see only what was published; caps; cash explained by trades |

The three violated ones are disagreements between the code and what its own text
or tests say; `findings` quotes both sides.

* *Expiry race.* The job reads a lapsed row; an administrator confirms a payment
  and commits; the job commits `EXPIRED`. The period end stays in the future, but
  the status no longer grants access. `BillingOverlap` shows the other direction
  to be safe: a lost update never gives time away.
* *Oversold.* Two requests read one held share, both sell it; the second delete
  of the position is only a warning to SQLAlchemy.
* *Overweight.* The sizing knows the weight of the sector, of the cash and of the
  speculative names, but not that of the name itself. Each size is below the cap;
  the position it is added to need not be. Bought as advised again and again, at the
  price it was sized at, one name passes a fifth of the portfolio by more than costs
  explain.

The models contain further steps at which the code departs from what one might
expect, without a run of their own: a trial that is cancelled and resumed is
`ACTIVE` without a payment (`subscriptions.py:208`), though access is unchanged,
as `AccessIsDeadline` confirms; a SUCCEEDED callback that is repeated prolongs the
subscription again, two periods for one payment (`routes_billing.py:190-198`), which
no text of the repository denies and no property is about; a change of password
always fails (`routes_auth.py:408`); two administrators may demote each other
(`routes_admin.py:185`); a stored close of today, and a price from before
an outage, are labelled LIVE (`quotes.py:240`, `:514`); a refused reset form has
used up its link (`accounts/service.py:407`); a thesis below its level stays open
while its alert counts as a duplicate (`reports/alerts.py:146`); a restatement
replaces figures under their old publication date (`ingestion.py:348`), so that
`NoLookAhead` is about dates, not about figures as they were first published.

**Bounds.** One customer is enough for billing, as no operation but the expiry
job touches two, and that job treats rows independently. `MaxRows = 2`
and `MaxPayments = 2` let a trial follow a trial and two payments meet;
`TrialDays = 1`, `PeriodDays = 2` and `MaxDay = 4` let a trial and a period end
and a renewal come early, on time and late; `MaxEnd` cuts endless renewals by
repeated callbacks. `BillingOverlap` has two request threads and the scheduler,
two of them at a time. In paper trading four orders suffice to open, average,
reduce and close one position beside another; two prices make gains and losses,
and rates of a tenth keep the money integral (`OnGrid` leaves out the orders
whose average would not be). `UserAlerts` has two alerts on one ticker, so that
one may fire and the other be deleted in the same sweep, one price between two
levels, two ticks of one day each and at most two mails per alert.
`AccountSessions` has one account, as its sessions, links and attempts are never
compared with another's: two passwords, two requests at a time, three links (one
to verify, two to reset), two sessions, and a clock that lets a session and a
reset link expire. `AccountAdmins` has two accounts, so that each may act on the
other and then on nobody, one password and no clock. Addresses are
interchangeable there, as none is configured to be an administrator's. Its epoch reaches one: an
account can be suspended, its sessions ended, and it can be reactivated, which is
what a revival takes.

`ResearchWeeks` has one name (names meet only in the count of rows, which a
visitor's session disturbs as well), two days and two prices, so that a level is
reached, broken or neither, late bars, three recommendations and one failure or
crash: enough for a job, a visitor beside it and a job again. `Desk` has three
universes of four names: a strong one, which one of them has in another sector, one
of invented data, a weak one, one without statements, and peers; windows of a few
bars; five calls for two names of five agents, so that the budget ends
with the first, or within the second when the first is given up; and three
answers, one an error, one a notch and one two notches away from what some name's
score implies. There are three orders at most (`MaxFills`) out of those advised, two of
an analyst's own (`OwnOrders`: one that leaves little more cash than the buffer, one
that fills most of a sector) and sales, and no run begins after the last one; new data
is stored at any time between runs. This is enough for the cash floor to bind and for
a sector and speculation to be filled by several purchases; the stage of liquidity
never binds in the instance. `DeskOverweight` has one universe and orders as advised
only. `History` has three names and an index, three providers of decreasing
trust that overlap in days and differ in fields, statements that come late, twice
and restated, one bulletin that comes over a fuller bar, over a synthetic one and twice
for one name, and one strategy of each kind; the walk starts on the second of four
days, and any fetch may come between two of its days. What lies beyond these
bounds is covered by the proofs, as far as section 4 goes.

Two bounds of the account runs are assumptions the properties need. Were all
operations to overlap (`Serial = {}`), two requests for a link leave two that work,
and two requests that raise the epoch of an account from the same value leave a
session of the first valid after the second. And `AccountSessions` has `HashUpgrade`
off: a sign-in that replaces an outdated hash while a reset commits writes the
old password back. `hazards` lists each of these at its line.

**Deadlock** is checked in every run but one: `BillingExpiryRace`, where the last
day with no request left is the end of the instance.

**Fairness** is assumed in `BillingOverlap` and `ResearchWeeks`.
`WF(Commit(w))`: a request that began ends. `SF(ExpireSubscriptions(Scheduler))`:
APScheduler runs the job daily in a thread of its own and nothing makes it wait;
it is strong because the bound on overlapping requests, which the program does not
have, can disable the action again and again. `WF(WeeklyStep)`: the scheduler
starts the weekly job again and again, and a step that was begun ends, well or
badly; a step that waits for no one is always enabled. It is not assumed that a
step succeeds: `CallsAreJudged` holds because failures are finitely many
(`MaxFailures`) and `evaluate_recommendations` goes over all open calls each
week. Nothing is assumed of customers, administrators, visitors, the feeds or the
clock.

**Types.** `TypeOK` of Research, Desk and History holds on the instances of these
runs as well (`INVARIANT TypeOK` added to the cfg); the runs leave it out.

## 4. The proofs

| Theorem | States | For |
|---|---|---|
| `BillingProofs!TypeCorrect` | `TypeOK` | all constants, overlap included |
| `BillingProofs!SerialCorrect`, `PaidTimeKept`, `DaysSoldOnce` | `AccessIsDeadline`, `PaidTimeHonoured`, `PaidPeriodsDisjoint` | `Overlap = 0` |
| `BillingProofs!ConfirmationsKept` | `ConfirmedStays` | `Overlap = 0` |
| `BillingProofs!BillingKeepsPromise` | `KeepsPromise`, the refinement of `Entitlement` | `Overlap = 0` |
| `BillingProofs!TimeIsPaidFor` | `NoFreeTime` | any overlap, no gateway callbacks |
| `PaperTradingProofs!NeverOverdrawn`, `BookTyped` | `CashNeverNegative`, `TypeOK` | any tickers, prices, rates |
| `PaperTradingProofs!LedgerReplays` | `ReplayAgrees` | ledgers of any length |
| `PaperTradingProofs!FiguresAddUp` | `ProfitsReconcile` | the same |
| `UserAlertsProofs!AlertsCorrect`, `AlertsTyped`, `RecordsAreTrue` | `GeneratedIsLabelled`, `TypeOK`, `RecordedWasMailed` | any tickers, alerts, providers' answers |
| `UserAlertsProofs!DemoStaysSilent` | `NeverFiresOnDemo` | the same |
| `UserAlertsProofs!OwnerIsObeyed` | `OwnerDecides` | the same |
| `UserAlertsProofs!OutageBringsNoDemo` | `NeverDowngraded` | the same |
| `AccountsProofs!AccountsTyped` | `TypeOK` | all constants, any overlap |
| `AccountsProofs!AdminLost` | `LastAdminLostToDeposed` | the same |
| `AccountsProofs!RevokedForGood` | `NeverRevived` | requests that raise an epoch do not overlap one another |
| `AccountsProofs!CookiesFollowPassword` | `SessionsFollowPassword` | nor are hashes upgraded |
| `AccountsProofs!OnlyLatestWorks` | `LatestLinkOnly` | requests for a link do not overlap one another |
| `AccountsProofs!LockoutBounds` | `FailuresBounded` | any overlap, finitely many threads |
| `ResearchProofs!AlertsOnce`, `AlertsApart`, `MarksAreTrue` | `AlertsNotRepeated`, `NotifiedWasSent` | any names, weeks, failures, crashes |
| `ResearchProofs!LevelsKept` | `LevelsArchived` | any sessions that overlap |
| `ResearchProofs!VerdictsFinal` | `VerdictStands` | the same |
| `ResearchProofs!ThesesSingle` | `OneOpenThesis` | while no two sessions overlap (`clean`) |
| `ResearchProofs!DisprovedForGood` | `DisprovedStays` | the same |
| `HistoryProofs!HistoryKept` | `ConfidenceNeverDrops` | any chain of providers, payloads and bulletins |
| `HistoryProofs!NothingAhead` | `NoLookAhead` | any strategy and ingestion at any time |
| `HistoryProofs!CapsKept` | `TargetsCapped` | any ranking, cap and share invested |
| `HistoryProofs!CashExplained` | `TradesExplainCash` | any prices, targets and costs |
| `HistoryProofs!TypesKept` | `TypeOK` | any data |
| `DeskProofs!WithinBudget` | `BudgetKept` | any failures and requests |
| `DeskProofs!WordsBounded` | `WordsMoveOneNotch` | any answers of the model |
| `DeskProofs!FakesKeptOut` | `FakesNotSized` | any data, any portfolio |
| `DeskProofs!LimitsKept` | `LimitsHold` | any data, any sequence of purchases and sales, their costs included |
| `DeskProofs!PageKept` | `PageGrounded` | any names and series, any figure of them missing |

*Billing.* The properties say nothing of which row a request will touch, so they are
not inductive. The invariant adds the shape of a user's rows: only the newest can
still be running, a running row has an entitling status and one deadline in both
columns, and received payments lie before the deadline, one after the other. With
`Overlap = 0` at most one request is in flight and has read exactly the stored
subscriptions, so its commit is its decision; the refinement follows step by step from
the same invariant. The assumption is needed: `BillingExpiryRace` is a counterexample
without it. `ConfirmInv` adds that a request in flight writes no other status over a
payment that was confirmed by hand: a callback can only have found a payment that is
still at the gateway.

With overlap the argument is another. `FreeInv` says that each row's period is
within a trial and one period per received payment from today, and that the same
holds of what a request in flight will store, counting the payments it will have
settled by the same commit (`Earned`); and that no commit takes a received payment
back (`Settles`). A lost update then loses time and never makes any. A
callback that reports a failure after the fact would take the payment back, which
is why callbacks are left out there, in the theorem and in `BillingOverlap`.

*Paper trading.* `BookInv` types the book and keeps cash and quantities from
becoming negative; the argument is that the test of `Accepts` is on the same
figure `CashFlow` that is booked, and that rates below one leave every other
side's flow non-negative. `LedgerInv` adds what the ledger is worth: replaying it
gives exactly the book (`ReplayInv`), and the cash is the capital plus realised
profits, less what open positions cost and their commissions (`CashInv`). Each order appends
one row, so both follow from what one row does to a fold (`FoldedAppend`), and the
profits reconcile by summing over the positions.

*Alerts.* `AlertInv` states that every cached row, and every row a running sweep
has fetched and not committed, carries the demo flag if it was generated
(`Stamped`), which is what the label and the sweep rely on; and that what a sweep
holds of an alert agrees in count and delivery with the stored row (`SweptRow`),
so that the count it commits is covered by the mail it sent. `FeedInv` adds that
what a sweep has refreshed while a feed is configured was not generated; rows
that were in the cache before may be, and are not touched.

*Accounts.* `AdminInv` types the tables and says of requests in flight what holds
whatever overlaps: what they insert has an owner, one that creates an account while
there is none creates an administrator, and only a change of role or status writes
these columns, of an account other than its own administrator's, which exists. The last
administrator is then lost in one kind of step only. A commit that changes nobody's
role or status loses none; one that does has a target other than its actor, so that
if the actor is still an administrator one remains. No premise on what overlaps is
needed.

`SessionInv` dates every session by its account's epoch (`Dated`): no session is
of a later epoch; one of the present epoch was opened with the present password,
and there is none while the account is closed. This must hold of the session a
sign-in is about to insert as well, although the account may be changed before it
does: whatever changes a password or closes an account raises the epoch in the
same commit, so the late session is of an earlier epoch and never works. Epochs
only grow because no two requests that raise one overlap (`EpochOps`).

`LinkInv` says that a request for a link will use up all links outstanding when
it commits: those it has read, as nothing else in flight sends one. `FailInv`
counts the sign-ins that were let through and not yet recorded with the recorded
ones (`Guesses`): a sign-in is let through below the limit, there are no more of
them than threads, and a commit moves one from the first count to the second.

*Research.* `AlertInv` is about the stored alerts together with those a session
holds and has not committed: two of one kind and name are more days apart than
`_exists` looks back, and a mark says the truth. `RowInv` says of an update in
flight that it has read its thesis as it stands, or that the version it would
archive exists, so that its commit will be refused: this is how the unique column
keeps the archive whole although nothing is locked. `CleanInv` adds, while no two
sessions have overlapped, that what a session found absent is absent and what it
opened is single in its name and direction.

*History.* A stored bar changes only by `StoreBars`, for a better one (`StoreKeeps`),
and by `StoreBulletin`, for one of the highest confidence. For the future, the proof
shows that the view of a day is the view of what was published by the day: a bar or
statement dated later drops out of `BarsSeen` and `PeriodsPublished`, which every
answer of the view is made from. The log is then a record of decisions made on such
views (`LogInv`). As with the property, what was published by a day is taken as stored
on the day of the decision.

For the weights and the cash, `BarsInv` types what is stored and `RunInv` what the
backtest has made of it. A round of redistribution keeps each weight below the cap
and does not raise the sum, as what is handed out is rounded down and no more than
the room there is: this is an invariant of the fold over the rounds. A sale and a
purchase keep the equation between cash, holdings at cost, profits and fees
(`Balanced`), hence so does the fold over all orders of a day. That a ranking has no
name twice rests on `InOrder` being an order, which is proved by induction on the
ranks.

*Desk.* `BudgetInv`: the calls made are the calls counted. `NotchInv`: each decision
is measured against the action its own score implies. `FakeInv` follows invented data
from the pack to the size: a synthetic pack leaves at most one of ten points of
conviction, the first gate of sizing asks for four (`ConvictionFloor`, in tenths of a
point), and no advice outlives the decisions it rests on. `RunInv` ties the analyses
of a run to the data it began with. `PortfolioInv` says that the size advised is the
one `SizePosition` gives for the portfolio as it is now, as advice is dropped by every
step that changes what it was made from; each stage of sizing only lowers the weight
and the stages of sector, speculation and cash leave no more than the room there is
(`FitsIn`). At the entry price or below, the advised shares are worth no more than the
weight, so that following the advice adds to a sum over positions no more than is left
of its limit. What it pays beyond that is at most 35.03 hundredths of a percent of a
purchase of a fifth of the portfolio at most; the rest is arithmetic on the weights
before and after, in which the shares taken are rounded up and the cash down.

The sizes and the page rest on `FiguresAreNumbers`: whatever is missing, the scores of
an analysis are integers with a coverage of 0 to 100, and its price, indicators, price
levels and multiples are integers or `NA`. It goes up through the engines. A score is
a quotient by the sum of the weights present, which is positive when there is one;
averages, ranges and clusters of levels are folds, and what one step of the fold keeps
the whole fold keeps. `PageInv` only adds that what is stored is one of the universes:
a page is made from one analysis in one step. Its fair value is a weighted mean of the
methods left, so it lies between the least and the greatest of them, and the code
withholds it when these are too far apart; the rating starts from the score's
confidence, and each thing missing or stale lowers it or caps it.

*Sums and folds.* `Folding` proves what the community modules define by
recursion: a sum takes out an element, is split, compared and moved along a
bijection; a fold over a sequence extended by one element is a step from the fold
before. It unrolls a definition into its graph of values over all subsets and shows
by least counterexample that there is exactly one such graph, so that no induction
over predicates is needed. The proofs instantiate it for their operators.

The assumptions are those of the modules: `BillingAssumption`,
`PaperTradingAssumption`, `QuotesAssumption`, `AlertsAssumption`,
`AccountsAssumption`, `ResearchAssumption`, `DeskAssumption`, `WindowAssumption`
and `CostAssumption` give the types of the constants, positive durations, rates
below one, finite universes and the shape of what providers answer. `DeskAssumption`
types what is stored, bars and statements of any length with any figure missing,
and says nothing of what is computed from it. TLC evaluates all of them.

Model-checked only: `LapsedRetired` and `CallsAreJudged`, which are liveness, out of
reach of the prover used. What an indicator is worth on a given series is computed by
TLC as well: of the folds the proofs say what type they give.

## 5. What is not modelled

* *Wording, layout, logging, audit rows*: no property is about them.
* *Market session status, screener, weekly report, market overview, risk and
  attribution*: functions of the clock or of stored rows whose results nothing
  reads back, with no order of steps to get wrong. Risk and attribution also need roots
  and regressions over floating-point series.
* *Parsers of the data providers and of the bulletins, e-mail templates and SMTP, the
  frontend*: what they may answer is an input of History, Quotes and UserAlerts. What
  the import of a bulletin then stores is modelled; left out is its option to store
  codes that belong to no company. `scripts/seed_gmg_demo.py` prepares a
  demonstration: it inserts bars only for names that have none, or, when asked to start
  over, deletes all history first.
* *Paper trading*: the table of daily snapshots, written beside trading and read
  by a chart, and back-dated orders, which no route places.
* *Subscriber alerts*: the indicator conditions, which read stored bars.
* *Analytics*: figures that need roots or logarithms (volatility, Bollinger bands);
  volatility is an input.
* *Grading*: the benchmark of a recommendation, a second price series treated as
  the first, and the summary of verdicts.
* *Accounts*: the rate limiter, which lives in the memory of one process, cookie
  and form signatures, and the rules for passwords.
* *Workspace*: watchlists, saved screens and real holdings, which one user edits
  row by row.
