------------------------------- MODULE Ingestion ------------------------------
(***************************************************************************)
(* How fetched data gets into the database                                 *)
(* (src/backend/data/ingestion.py, data/providers/registry.py).  A         *)
(* provider is a record                                                    *)
(*   name, fake, confidence                                                *)
(*   prices    name -> bars [day, open, high, low, close, adjusted, volume]*)
(*   filings   what it may answer of statements: functions from names to   *)
(*             sequences of [period, end, available, ...]                  *)
(* and is external: what it answers is data.  A name it does not cover is  *)
(* not in the domain.  What is stored keeps the provider's name and        *)
(* confidence, and whether it is synthetic.  Bars come from the Exchange's *)
(* bulletins too (data/providers/egx_bulletin.py): a bulletin is a record  *)
(*   day       the trading day                                             *)
(*   rows      sequence of [name, open, high, low, close, volume]          *)
(***************************************************************************)
EXTENDS Scoring

\* The first answer of a chain with something in it, and which provider gave
\* it (0: none); failed: the providers that raise, and are passed over.
Call(answers, failed) ==
    LET gives == {i \in DOMAIN answers \ failed : answers[i] # <<>>}
        from == IF gives = {} THEN 0 ELSE Min(gives)
    IN  [data |-> IF from = 0 THEN <<>> ELSE answers[from], from |-> from]

Labelled(record, provider) ==
    Put(Put(Put(record, "confidence", provider.confidence), "fake", provider.fake),
        "source", provider.name)

------------------------------------------------------------------------------
(* Prices: day -> bar.                                                     *)

Fields == {"open", "high", "low", "adjusted", "volume"}
Filled(bar) == Cardinality({f \in Fields : Known(bar[f])})

\* Forgetting that a worse source must not win.
ReplaceIncomplete(stored, bar) ==
    \/ ConfidenceRank[bar.confidence] > ConfidenceRank[stored.confidence]
    \/ Filled(bar) > Filled(stored)

\* A stored bar gives way to a better source, or to a more complete record of
\* an equal one.
ShouldReplace(stored, bar) ==
    \/ ConfidenceRank[bar.confidence] > ConfidenceRank[stored.confidence]
    \/ /\ ConfidenceRank[bar.confidence] = ConfidenceRank[stored.confidence]
       /\ Filled(bar) > Filled(stored)

\* The bars that count: those with a day and a close, of two of a day the first.
Countable(payload) ==
    LET whole == {i \in DOMAIN payload : Known(payload[i].day) /\ Known(payload[i].close)}
    IN  {payload[i] : i \in {j \in whole : \A k \in whole : k < j => payload[k].day # payload[j].day}}

StoreBars(stored, payload, provider) ==
    LET countable == {Labelled(b, provider) : b \in Countable(payload)}
        wins(b) == b.day \notin DOMAIN stored \/ ShouldReplace(stored[b.day], b)
        taken == {b \in countable : wins(b)}
        days == {b.day : b \in taken}
    IN  [d \in days \cup DOMAIN stored |->
            IF d \in days THEN CHOOSE b \in taken : b.day = d ELSE stored[d]]

\* A row of a bulletin as a bar.
BulletinBar(bulletin, row) ==
    [day |-> bulletin.day, open |-> row.open, high |-> row.high, low |-> row.low,
     close |-> row.close, adjusted |-> row.close, volume |-> row.volume,
     confidence |-> "HIGH", fake |-> FALSE, source |-> "EGX:bulletin"]

RowsOf(bulletin, n) == {i \in DOMAIN bulletin.rows : bulletin.rows[i].name = n}

\* Whatever is stored of the day gives way; of two rows for a name the last stays.
StoreBulletin(stored, bulletin, n) ==
    IF RowsOf(bulletin, n) = {} THEN stored
    ELSE Put(stored, bulletin.day, BulletinBar(bulletin, bulletin.rows[Max(RowsOf(bulletin, n))]))

------------------------------------------------------------------------------
(* Statements: period -> statement.                                        *)

\* A statement without a date of publication is taken to be public when the
\* reporting window closes.
Publication(s, window) == IF Known(s.available) THEN s.available ELSE s.end + window

\* One that was stored is overwritten, whatever the source.
StoreStatements(stored, payload, provider, window) ==
    LET whole == SelectSeq(payload, LAMBDA s : Known(s.end))
        row(s) == Labelled([s EXCEPT !.available = Publication(s, window)], provider)
        last(p) == whole[Max({i \in DOMAIN whole : whole[i].period = p})]
    IN  [p \in {s.period : s \in Range(whole)} |-> row(last(p))] @@ stored

\* A key twice in a payload, and not stored before, is added twice: the
\* database refuses it and the whole transaction is lost.
Collides(stored, keys) ==
    \E i, j \in DOMAIN keys : i # j /\ keys[i] = keys[j] /\ keys[i] \notin stored

==============================================================================
