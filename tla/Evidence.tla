-------------------------------- MODULE Evidence ------------------------------
(***************************************************************************)
(* The evidence an agent may reason over (src/backend/research/evidence.py)*)
(* and what is checked of an answer of the language model against it       *)
(* (src/backend/research/agents.py).  A topic is the key of an item.  Left *)
(* out: the factor exposures and the indicators no agent asks for.         *)
(***************************************************************************)
EXTENDS Analysis

\* Records what is known; what is not is recorded as unknown.
KnownTopics(offered) == {k \in DOMAIN offered : Known(offered[k])}

\* The items of f, and those of g that f does not have.
Joint(f, g) == [k \in DOMAIN f \cup DOMAIN g |-> IF k \in DOMAIN f THEN f[k] ELSE g[k]]

Scores(alpha) ==
    [alpha_score |-> alpha.value, fundamental_score |-> alpha.parts["fundamental"],
     technical_score |-> alpha.parts["technical"],
     quantitative_score |-> alpha.parts["quantitative"],
     catalyst_score |-> alpha.parts["catalysts"], risk_score |-> alpha.parts["risk"],
     score_coverage |-> alpha.coverage]

PackWarnings(a) ==
    (IF a.alpha.stale THEN {"stale"} ELSE {})
    \cup (IF a.fundamental.insufficient THEN {"no_statements"} ELSE {})
    \cup (IF a.technical.insufficient THEN {"short_history"} ELSE {})
    \cup (IF Known(a.alpha.value) /\ a.alpha.coverage < 75 THEN {"thin_score"} ELSE {})

\* The sources of the pack: of the latest bar, of the latest statement and of
\* the events that count.
ContainsSynthetic(d) ==
    \/ d.bars # <<>> /\ Last(d.bars).fake
    \/ d.statements # <<>> /\ d.statements[1].fake
    \/ \E i \in DOMAIN Relevant(d.events) : Relevant(d.events)[i].fake

BuildEvidencePack(d, a) ==
    LET peers == IF DOMAIN a.peers.pe = {} THEN <<>> ELSE [sector_median_pe |-> Median(a.peers.pe)]
        m == a.fundamental.metrics
        fundamentals == IF a.fundamental.insufficient THEN <<>>
                        ELSE Restrict(m, DOMAIN m \ {"payout_ratio"}) @@ peers
        t == a.technical
        technicals == IF t.insufficient THEN <<>>
                      ELSE [price |-> t.price, sma200 |-> t.long, rsi14 |-> t.rsi,
                            momentum_3m |-> t.quarter, relative_strength_3m |-> t.relative,
                            volatility_20d |-> t.volatility]
        offered == Joint(Scores(a.alpha),
                         fundamentals @@ technicals @@ [news_sentiment |-> d.sentiment])
        fake == ContainsSynthetic(d)
    IN  [items |-> Restrict(offered, KnownTopics(offered)),
         unknowns |-> (DOMAIN offered \ KnownTopics(offered))
                      \cup (IF a.fundamental.insufficient THEN {"fundamentals"} ELSE {})
                      \cup (IF t.insufficient THEN {"technicals"} ELSE {}),
         texts |-> (IF a.fundamental.insufficient THEN {} ELSE {"reporting_period"})
                   \cup (IF t.insufficient THEN {} ELSE {"trend"})
                   \cup (IF t.supports = {} THEN {} ELSE {"support_levels"})
                   \cup (IF t.resistances = {} THEN {} ELSE {"resistance_levels"}),
         signals |-> t.signals,
         events |-> {Relevant(d.events)[i].kind : i \in DOMAIN Relevant(d.events)},
         warnings |-> PackWarnings(a) \cup (IF fake THEN {"synthetic"} ELSE {}),
         synthetic |-> fake]

------------------------------------------------------------------------------
(* What comes back from the language model: an error, blank text, text     *)
(* without a tagged claim, or claims; the topics its facts are about, the  *)
(* decision it states if any, and whether a number in a fact is made up.   *)

Claims == {"FACT", "CALCULATION", "INFERENCE", "OPINION", "UNKNOWN"}
Unstated == "none"

\* Facts about what the pack lists as unavailable are found by the label, when
\* it is longer than eight letters.
ShortLabels == {"pe", "pb", "sma200", "rsi14"}

ValidateOutput(answer, pack) ==
    {<<"unavailable", k>> : k \in (answer.facts \cap pack.unknowns) \ ShortLabels}
    \cup (IF answer.invented THEN {<<"untraced", "number">>} ELSE {})

ParseStatements(answer) ==
    IF answer.kind = "tagged" THEN {<<"FACT", k>> : k \in answer.facts} \cup {<<"OPINION", "memo">>}
    ELSE {}
==============================================================================
