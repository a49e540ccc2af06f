-------------------------------- MODULE Quotes --------------------------------
(***************************************************************************)
(* The quote cache and its labels (src/backend/market/quotes.py): three    *)
(* providers in a fixed preference, one cached row per ticker that every   *)
(* refresh overwrites, and the badge a page shows beside the price.        *)
(*                                                                         *)
(* A price carries, besides its value, how it was made: GENERATED by a     *)
(* random number generator, the CLOSE of a stored bar, or from the TAPE of *)
(* a licensed vendor.  The program has no such column; the labels must     *)
(* tell it from isDemo, delayed_minutes and the source alone.              *)
(*                                                                         *)
(* Left out: the other figures of a quote, the market session and the      *)
(* registry of data sources that record_source_health keeps.               *)
(***************************************************************************)
EXTENDS Integers, FiniteSets

CONSTANTS
    Tickers,
    Prices,
    Day,                \* ticks in a day (1440 minutes)
    MaxAge,             \* ticks a cached quote is served without a refresh
    VendorDelay,        \* ticks by which the licensed feed is delayed
    MaxTime             \* bound: the last tick

ASSUME QuotesAssumption ==
    /\ Prices \subseteq Nat
    /\ Day \in Nat \ {0}
    /\ {MaxAge, VendorDelay, MaxTime} \subseteq Nat

VARIABLES
    now,
    vendor,     \* the licensed feed: none configured, up, or down
    bars,       \* bars[t]: the latest stored daily bar of t
    quotes      \* quotes[t]: the cached row of t

quotesVars == <<now, vendor, bars, quotes>>

Made == {"GENERATED", "CLOSE", "TAPE"}

NoBar == [day |-> -1, price |-> 0, synthetic |-> FALSE]
Bar == [day : Nat, price : Prices, synthetic : BOOLEAN]

NoQuote == [price |-> 0, made |-> "GENERATED", isDemo |-> TRUE, delayed |-> 0, retrieved |-> -1]
Quote == [price : Prices, made : Made, isDemo : BOOLEAN, delayed : Nat, retrieved : Nat]

Today == now \div Day

Has(t) == quotes[t] # NoQuote

------------------------------------------------------------------------------
(* Providers. *)

\* build_quote_provider: licensed if configured, then stored, then demo.
Provider ==
    IF vendor # "none" THEN "licensed"
    ELSE IF \E t \in Tickers : bars[t] # NoBar THEN "stored"
    ELSE "demo"

DemoQuote(price) ==
    [price |-> price, made |-> "GENERATED", isDemo |-> TRUE, delayed |-> 0, retrieved |-> now]

\* Mutant: bars of the synthetic provider are not recognised.
StoredQuoteUnflagged(t) ==
    [price |-> bars[t].price, made |-> IF bars[t].synthetic THEN "GENERATED" ELSE "CLOSE",
     isDemo |-> FALSE, delayed |-> (Today - bars[t].day) * Day, retrieved |-> now]

StoredQuote(t) ==
    [price |-> bars[t].price, made |-> IF bars[t].synthetic THEN "GENERATED" ELSE "CLOSE",
     isDemo |-> bars[t].synthetic, delayed |-> (Today - bars[t].day) * Day, retrieved |-> now]

\* Mutant: a vendor row without a price is stored as zero.
LicensedQuoteZero(price) ==
    [price |-> 0, made |-> "TAPE", isDemo |-> FALSE, delayed |-> VendorDelay,
     retrieved |-> now]

LicensedQuote(price) ==
    [price |-> price, made |-> "TAPE", isDemo |-> FALSE, delayed |-> VendorDelay,
     retrieved |-> now]

NoRows == [t \in {} |-> NoQuote]

\* Mutant: an outage falls back to generated prices.
FetchedOrDemo(wanted) ==
    IF Provider = "demo" \/ vendor = "down" THEN [wanted -> {DemoQuote(p) : p \in Prices}]
    ELSE IF Provider = "stored"
         THEN {[t \in {u \in wanted : bars[u] # NoBar} |-> StoredQuote(t)]}
    ELSE UNION {[C -> {LicensedQuote(p) : p \in Prices}] : C \in SUBSET wanted}

\* What a fetch may return: a vendor covers some of the tickers, and none when
\* it is down, for an error stores nothing.
Fetched(wanted) ==
    IF Provider = "demo" THEN [wanted -> {DemoQuote(p) : p \in Prices}]
    ELSE IF Provider = "stored"
         THEN {[t \in {u \in wanted : bars[u] # NoBar} |-> StoredQuote(t)]}
    ELSE IF vendor = "up"
         THEN UNION {[C -> {LicensedQuote(p) : p \in Prices}] : C \in SUBSET wanted}
    ELSE {NoRows}

\* Every fetched row replaces the cached one, all its columns.
Over(rows, fetched) ==
    [t \in Tickers |-> IF t \in DOMAIN fetched THEN fetched[t] ELSE rows[t]]

\* get_quotes refreshes the rows that are missing or too old.
Stale(wanted) == {t \in wanted : ~ Has(t) \/ quotes[t].retrieved + MaxAge < now}

------------------------------------------------------------------------------
(* Actions. *)

QuotesInit ==
    /\ now = 0
    /\ vendor = "none"
    /\ bars = [t \in Tickers |-> NoBar]
    /\ quotes = [t \in Tickers |-> NoQuote]

Refresh(wanted) ==
    /\ \E fetched \in Fetched(wanted) : quotes' = Over(quotes, fetched)
    /\ UNCHANGED <<now, vendor, bars>>

\* The scheduler polls only a licensed feed; the admin route any provider.
QuoteRefreshJob == Provider = "licensed" /\ Refresh(Tickers)

AdminRefresh == Refresh(Tickers)

\* A page reads the quotes it shows, and commits what it refreshed.
ReadQuotes(wanted) == Stale(wanted) # {} /\ Refresh(Stale(wanted))

\* A close of today or an earlier day, real or of the synthetic provider, whose
\* bars are unverified and therefore replace none of the same day.
IngestBar(t, bar) ==
    /\ bar.day <= Today
    /\ bar.day > bars[t].day \/ (bar.day = bars[t].day /\ ~ bar.synthetic)
    /\ bars' = [bars EXCEPT ![t] = bar]
    /\ UNCHANGED <<now, vendor, quotes>>

\* The feed goes down and comes back; the operator configures it and restarts.
VendorChanges(state) ==
    /\ vendor' = state
    /\ UNCHANGED <<now, bars, quotes>>

Tick ==
    /\ now < MaxTime
    /\ now' = now + 1
    /\ UNCHANGED <<vendor, bars, quotes>>

Vendors == {"none", "up", "down"}

QuotesNext ==
    \/ QuoteRefreshJob
    \/ AdminRefresh
    \/ \E wanted \in SUBSET Tickers : ReadQuotes(wanted)
    \/ \E t \in Tickers, bar \in [day : 0..Today, price : Prices, synthetic : BOOLEAN] :
          IngestBar(t, bar)
    \/ \E state \in Vendors : VendorChanges(state)
    \/ Tick

------------------------------------------------------------------------------
(* Labels. *)

\* quote_freshness.
\* Mutant: the delay is looked at before the demo flag.
BadgeByDelay(q) ==
    IF q = NoQuote THEN "NO DATA"
    ELSE IF q.delayed >= Day THEN "END OF DAY"
    ELSE IF q.delayed > 0 THEN "DELAYED"
    ELSE IF q.isDemo THEN "DEMO DATA"
    ELSE "LIVE"

Badge(q) ==
    IF q = NoQuote THEN "NO DATA"
    ELSE IF q.isDemo THEN "DEMO DATA"
    ELSE IF q.delayed >= Day THEN "END OF DAY"
    ELSE IF q.delayed > 0 THEN "DELAYED"
    ELSE "LIVE"

------------------------------------------------------------------------------
(* Properties. *)

\* Every row has its type; no bar is of a day to come.
QuotesTypeOK ==
    /\ now \in 0..MaxTime
    /\ vendor \in Vendors
    /\ bars \in [Tickers -> Bar \cup {NoBar}]
    /\ \A t \in Tickers : bars[t].day <= Today
    /\ quotes \in [Tickers -> Quote \cup {NoQuote}]

\* A generated price is never shown as a real one, whichever of the providers
\* made it and however old the cached row is by now.
GeneratedIsLabelled ==
    \A t \in Tickers : Has(t) /\ quotes[t].made = "GENERATED" =>
        Badge(quotes[t]) = "DEMO DATA"

\* While a vendor is configured no step, and no outage of it, puts a generated
\* price into the cache: LicensedQuoteProvider never falls back to demo data.
NeverDowngraded ==
    [][\A t \in Tickers :
          vendor # "none" /\ quotes'[t] # quotes[t] => quotes'[t].made # "GENERATED"]_quotesVars
==============================================================================
