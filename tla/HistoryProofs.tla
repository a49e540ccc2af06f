----------------------------- MODULE HistoryProofs ----------------------------
(***************************************************************************)
(* Proofs about History, for any providers, payloads, names and            *)
(* strategies: what ingestion may do to a stored bar, that a backtest does *)
(* not see the future, that its target weights stay under the cap, and     *)
(* that its trades explain its cash.                                       *)
(***************************************************************************)
EXTENDS History, FiniteSetTheorems, TLAPS

(* A bar that is stored.                                                   *)

\* _store_bars: a stored day stays, with its bar or one that should replace it.
LEMMA StoreKeeps ==
    ASSUME NEW old, NEW payload, NEW provider, NEW d \in DOMAIN old
    PROVE  /\ d \in DOMAIN StoreBars(old, payload, provider)
           /\ \/ StoreBars(old, payload, provider)[d] = old[d]
              \/ ShouldReplace(old[d], StoreBars(old, payload, provider)[d])
<1> DEFINE countable == {Labelled(b, provider) : b \in Countable(payload)}
           wins(b) == b.day \notin DOMAIN old \/ ShouldReplace(old[b.day], b)
           taken == {b \in countable : wins(b)}
           days == {b.day : b \in taken}
           new == StoreBars(old, payload, provider)
<1>1. new = [e \in days \cup DOMAIN old |->
                IF e \in days THEN CHOOSE b \in taken : b.day = e ELSE old[e]]
  BY DEF StoreBars
<1>2. CASE d \in days
  <2>1. new[d] \in taken /\ new[d].day = d  BY <1>1, <1>2
  <2> QED  BY <1>1, <2>1
<1>3. CASE d \notin days  BY <1>1, <1>3
<1> QED  BY <1>2, <1>3

LEMMA PricesKeep ==
    ASSUME NEW names, NEW failed, IngestPrices(names, failed),
           NEW n \in Names, NEW d \in DOMAIN bars[n]
    PROVE  /\ d \in DOMAIN bars'[n]
           /\ bars'[n][d] = bars[n][d] \/ ShouldReplace(bars[n][d], bars'[n][d])
<1>1. PICK call : bars' = [m \in Names |->
                              IF m \in names /\ call[m].from # 0
                              THEN StoreBars(bars[m], call[m].data, PriceProviders[call[m].from])
                              ELSE bars[m]]
  BY DEF IngestPrices
<1> QED  BY <1>1, StoreKeeps

\* ingest_bulletin: a stored day stays, with its bar or one of the bulletin.
LEMMA BulletinKeeps ==
    ASSUME NEW bulletin, ImportBulletin(bulletin), NEW n \in Names, NEW d \in DOMAIN bars[n]
    PROVE  /\ d \in DOMAIN bars'[n]
           /\ \/ bars'[n][d] = bars[n][d]
              \/ bars'[n][d].confidence = "HIGH" /\ bars'[n][d].source = "EGX:bulletin"
<1> DEFINE lost == \E m \in Names : /\ bulletin.day \notin DOMAIN bars[m]
                                    /\ Cardinality(RowsOf(bulletin, m)) > 1
           new == IF lost THEN bars[n] ELSE StoreBulletin(bars[n], bulletin, n)
           last == bulletin.rows[Max(RowsOf(bulletin, n))]
<1>1. bars'[n] = new  BY DEF ImportBulletin
<1>2. new = bars[n] \/ new = Put(bars[n], bulletin.day, BulletinBar(bulletin, last))
  BY DEF StoreBulletin
<1> HIDE DEF new, last
<1>3. CASE new = bars[n]  BY <1>1, <1>3
<1>4. CASE new = Put(bars[n], bulletin.day, BulletinBar(bulletin, last))
  <2>1. d \in DOMAIN new /\ new[d] = (IF d = bulletin.day THEN BulletinBar(bulletin, last) ELSE bars[n][d])
    BY <1>4 DEF Put
  <2> QED  BY <1>1, <2>1 DEF BulletinBar
<1> QED  BY <1>2, <1>3, <1>4

------------------------------------------------------------------------------
(* No look-ahead.  A strategy reads a view, and what a view answers of a    *)
(* database is what it answers of the past of it.                           *)

\* price_series and price: the bars up to the day are the same bars.
LEMMA SameBars ==
    ASSUME NEW day, NEW n \in DOMAIN bars
    PROVE  BarsSeen(View(bars, statements, day), n) =
              BarsSeen(View(Past(day), Filed(day), day), n)
<1> DEFINE seen == {d \in DOMAIN bars[n] : d <= day}
           past == [d \in seen |-> bars[n][d]]
<1>1. BarsSeen(View(bars, statements, day), n) = past  BY DEF BarsSeen, View, Restrict
<1>2. Past(day)[n] = past  BY DEF Past, Restrict
<1>3. BarsSeen(View(Past(day), Filed(day), day), n)
         = [d \in {e \in DOMAIN past : e <= day} |-> past[d]]
  BY <1>2 DEF BarsSeen, View, Restrict
<1>4. {e \in DOMAIN past : e <= day} = seen  OBVIOUS
<1> QED  BY <1>1, <1>3, <1>4

\* financial_periods: so are the statements published by the day.
LEMMA SamePeriods ==
    ASSUME NEW day, NEW n \in DOMAIN statements
    PROVE  PeriodsPublished(View(bars, statements, day), n) =
              PeriodsPublished(View(Past(day), Filed(day), day), n)
<1> DEFINE s == statements[n]
           public == {p \in DOMAIN s : s[p].available <= day}
           filed == [p \in public |-> s[p]]
           known(f) == [p \in {q \in DOMAIN f : Known(f[q].available) /\ f[q].available <= day} |-> f[p]]
<1>1. PeriodsPublished(View(bars, statements, day), n) = known(s)
  BY DEF PeriodsPublished, View, Restrict
<1>2. Filed(day)[n] = filed  BY DEF Filed, Restrict
<1>3. PeriodsPublished(View(Past(day), Filed(day), day), n) = known(filed)
  BY <1>2 DEF PeriodsPublished, View, Restrict
<1>4. {q \in DOMAIN s : Known(s[q].available) /\ s[q].available <= day}
        = {q \in DOMAIN filed : Known(filed[q].available) /\ filed[q].available <= day}
  OBVIOUS
<1>5. known(s) = known(filed)  BY <1>4
<1> QED  BY <1>1, <1>3, <1>5

\* And so is everything the view answers.
LEMMA SameAnswers ==
    ASSUME NEW day
    PROVE  Answers(View(bars, statements, day)) = Answers(View(Past(day), Filed(day), day))
<1> DEFINE v == View(bars, statements, day)
           w == View(Past(day), Filed(day), day)
<1>1. /\ DOMAIN v.bars = DOMAIN bars /\ DOMAIN w.bars = DOMAIN bars
      /\ DOMAIN v.statements = DOMAIN statements /\ DOMAIN w.statements = DOMAIN statements
  BY DEF View, Past, Filed
<1>2. \A n \in DOMAIN bars : BarsSeen(v, n) = BarsSeen(w, n)  BY SameBars
<1>3. \A n \in DOMAIN statements : PeriodsPublished(v, n) = PeriodsPublished(w, n)  BY SamePeriods
<1> HIDE DEF v, w
<1>4. \A n \in DOMAIN bars : PriceOn(v, n) = PriceOn(w, n)  BY <1>2 DEF PriceOn
<1>5. \A n \in DOMAIN bars : PriceSeries(v, n) = PriceSeries(w, n)  BY <1>2 DEF PriceSeries
<1>6. \A n \in DOMAIN statements : FinancialPeriods(v, n) = FinancialPeriods(w, n)
  BY <1>3 DEF FinancialPeriods
<1>7. [n \in DOMAIN v.bars |-> PriceOn(v, n)] = [n \in DOMAIN w.bars |-> PriceOn(w, n)]
  BY <1>1, <1>4
<1>8. [n \in DOMAIN v.bars |-> PriceSeries(v, n)] = [n \in DOMAIN w.bars |-> PriceSeries(w, n)]
  BY <1>1, <1>5
<1>9. [n \in DOMAIN v.statements |-> FinancialPeriods(v, n)]
        = [n \in DOMAIN w.statements |-> FinancialPeriods(w, n)]
  BY <1>1, <1>6
<1>10. Answers(v) = Answers(w)  BY <1>7, <1>8, <1>9 DEF Answers
<1> QED  BY <1>10 DEF v, w

LEMMA SameTargets ==
    ASSUME NEW day, NEW strategy
    PROVE  Targets(strategy, View(bars, statements, day), Universe)
             = Targets(strategy, View(Past(day), Filed(day), day), Universe)
<1> DEFINE v == View(bars, statements, day)
           w == View(Past(day), Filed(day), day)
<1>1. Answers(v) = Answers(w)  BY SameAnswers
<1> HIDE DEF v, w
<1>2. Select(strategy.kind, Answers(v), Universe) = Select(strategy.kind, Answers(w), Universe)
  BY <1>1
<1>3. Targets(strategy, v, Universe) = Targets(strategy, w, Universe)  BY <1>2 DEF Targets
<1> QED  BY <1>3 DEF v, w

\* The log of decisions is a sequence, of whatever.
IsSeq(s) == \E S : s \in Seq(S)

TestFields == {"phase", "strategy", "calendar", "at", "due", "book", "decided", "pending",
               "curve", "index", "log", "fake"}
IsTest(t) == DOMAIN t = TestFields /\ IsSeq(t.log)
LogInv == test # NoTest => IsTest(test)

LEMMA Appended ==
    ASSUME NEW s, NEW e, IsSeq(s)
    PROVE  /\ IsSeq(Append(s, e))
           /\ Len(Append(s, e)) = Len(s) + 1
           /\ Append(s, e)[Len(s) + 1] = e
           /\ Len(s) \in Nat
<1>1. PICK S : s \in Seq(S)  BY DEF IsSeq
<1>2. s \in Seq(S \cup {e})  BY <1>1
<1>3. Append(s, e) \in Seq(S \cup {e})  BY <1>2
<1> QED  BY <1>2, <1>3 DEF IsSeq

\* A day decides on nothing, or on the targets of the view of the day, unless
\* the strategy fails.
DecidesAs(e) == e.failed \/ e.targets = Targets(test.strategy, View(bars, statements, e.day), Universe)

LEMMA WalkMoves ==
    ASSUME LogInv, NEW fails \in BOOLEAN, Walk(fails)
    PROVE  /\ test # NoTest /\ DOMAIN test' = TestFields
           /\ \/ test'.log = test.log
              \/ \E e : test'.log = Append(test.log, e) /\ DecidesAs(e)
           /\ test'.strategy = test.strategy /\ test'.calendar = test.calendar
           /\ test'.at = test.at + 1 /\ test.at <= Len(test.calendar)
           /\ test'.book = IF test.decided
                           THEN Rebalance(test.book, test.pending, View(bars, statements, Day))
                           ELSE test.book
           /\ test'.pending \in {<<>>, Targets(test.strategy, View(bars, statements, Day), Universe)}
<1>1. test # NoTest /\ DOMAIN test = TestFields
  <2>1. test.phase = "running"  BY DEF Walk
  <2> QED  BY <2>1 DEF LogInv, IsTest, NoTest
<1> DEFINE v == View(bars, statements, Day)
           book == IF test.decided THEN Rebalance(test.book, test.pending, v) ELSE test.book
           targets == IF fails THEN <<>> ELSE Targets(test.strategy, v, Universe)
           e == [day |-> Day, targets |-> targets, failed |-> fails]
           point(x) == [day |-> Day, value |-> x]
           walked == [test EXCEPT
               !.at = @ + 1, !.book = book,
               !.curve = Append(@, point(book.cash + MarketValue(v, book.holdings))),
               !.index = IF Tradeable(v, Benchmark)
                         THEN Append(@, point(PriceOn(v, Benchmark))) ELSE @]
           waits == [walked EXCEPT !.decided = FALSE, !.pending = <<>>]
           logs == [walked EXCEPT !.decided = TRUE, !.pending = targets, !.log = Append(@, e),
                                  !.fake = @ \/ FirstIsFake(targets, v)]
<1>2. test' = waits \/ test' = logs
  <2> DEFINE next(w, b) ==
        LET decides == Day \in test.due /\ test.at < Len(test.calendar)
            moved == [test EXCEPT
               !.at = @ + 1, !.book = b,
               !.curve = Append(@, point(b.cash + MarketValue(w, b.holdings))),
               !.index = IF Tradeable(w, Benchmark)
                         THEN Append(@, point(PriceOn(w, Benchmark))) ELSE @]
        IN  \/ /\ ~ decides /\ ~ fails
               /\ test' = [moved EXCEPT !.decided = FALSE, !.pending = <<>>]
            \/ /\ decides
               /\ \E x \in {IF fails THEN <<>> ELSE Targets(test.strategy, w, Universe)} :
                     test' = [moved EXCEPT !.decided = TRUE, !.pending = x,
                                 !.log = Append(@, [day |-> Day, targets |-> x, failed |-> fails]),
                                 !.fake = @ \/ FirstIsFake(x, w)]
  <2>1. \E w \in {View(bars, statements, Day)} :
        \E b \in {IF test.decided THEN Rebalance(test.book, test.pending, w) ELSE test.book} :
            next(w, b)
    BY DEF Walk
  <2> HIDE DEF next
  <2>2. next(v, book)  BY <2>1
  <2> QED  BY <2>2 DEF next
<1>3. DecidesAs(e)  BY DEF DecidesAs
<1>4. /\ DOMAIN walked = TestFields /\ walked.log = test.log
      /\ walked.strategy = test.strategy /\ walked.calendar = test.calendar
      /\ walked.at = test.at + 1 /\ walked.book = book
  BY <1>1 DEF TestFields
<1>5. targets \in {<<>>, Targets(test.strategy, v, Universe)}  OBVIOUS
<1> DEFINE keeps == /\ DOMAIN test' = TestFields
                    /\ test'.strategy = test.strategy /\ test'.calendar = test.calendar
                    /\ test'.at = test.at + 1 /\ test'.book = book
                    /\ test'.pending \in {<<>>, Targets(test.strategy, v, Universe)}
<1> HIDE DEF v, book, targets, e, walked
<1>6. ASSUME test' = waits PROVE keeps /\ test'.log = test.log
  BY <1>4, <1>6 DEF TestFields
<1>7. ASSUME test' = logs PROVE keeps /\ test'.log = Append(test.log, e)
  BY <1>4, <1>5, <1>7 DEF TestFields
<1>8. test.at <= Len(test.calendar)  BY DEF Walk
<1> HIDE DEF waits, logs
<1>9. keeps /\ (test'.log = test.log \/ \E d : test'.log = Append(test.log, d) /\ DecidesAs(d))
  <2> HIDE DEF keeps
  <2> QED  BY <1>2, <1>3, <1>6, <1>7
<1> QED  BY <1>1, <1>8, <1>9 DEF v, book

LEMMA LogInvStep == LogInv /\ [Next]_vars => LogInv'
<1> SUFFICES ASSUME LogInv, [Next]_vars, test' # NoTest PROVE IsTest(test')
  BY DEF LogInv, IsTest
<1>1. CASE UNCHANGED test  BY <1>1 DEF LogInv
<1>2. ASSUME NEW strategy, NEW start, StartTest(strategy, start) PROVE IsTest(test')
  <2>1. DOMAIN test' = TestFields /\ test'.log = <<>>  BY <1>2 DEF StartTest, TestFields
  <2>2. <<>> \in Seq({})  OBVIOUS
  <2> QED  BY <2>1, <2>2 DEF IsTest, IsSeq
<1>3. ASSUME NEW fails \in BOOLEAN, Walk(fails) PROVE IsTest(test')
  BY <1>3, WalkMoves, Appended DEF LogInv, IsTest
<1>4. \/ UNCHANGED test \/ test' = NoTest
      \/ \E strategy, start : StartTest(strategy, start)
      \/ \E fails \in BOOLEAN : Walk(fails)
  BY DEF Next, vars, NextDay, IngestPrices, ImportBulletin, IngestFundamentals, IngestItems, Finish
<1> QED  BY <1>1, <1>2, <1>3, <1>4

LEMMA LogInvHolds == Spec => []LogInv
<1>1. Init => LogInv  BY DEF Init, LogInv
<1> QED  BY <1>1, LogInvStep, PTL DEF Spec

\* "There is no method that would return future data": a decision about a day
\* is the one made on what was public on the day, whatever is ingested when.
THEOREM NothingAhead == Spec => NoLookAhead
<1> DEFINE Decided ==
        test # NoTest /\ test' # NoTest /\ Len(test'.log) > Len(test.log) =>
          LET decision == test'.log[Len(test'.log)]
              past == View(Past(decision.day), Filed(decision.day), decision.day)
          IN  ~ decision.failed =>
                decision.targets = Targets(test.strategy, past, Universe)
<1>1. LogInv /\ [Next]_vars => [Decided]_vars
  <2> SUFFICES ASSUME LogInv, [Next]_vars, test # NoTest, test' # NoTest,
                      Len(test'.log) > Len(test.log),
                      ~ test'.log[Len(test'.log)].failed
               PROVE  LET decision == test'.log[Len(test'.log)]
                      IN  decision.targets =
                            Targets(test.strategy,
                                    View(Past(decision.day), Filed(decision.day), decision.day),
                                    Universe)
    OBVIOUS
  <2>1. IsSeq(test.log)  BY DEF LogInv, IsTest
  <2>2. Len(test.log) \in Nat  BY <2>1 DEF IsSeq
  <2>3. PICK fails \in BOOLEAN : Walk(fails)
    BY <2>2 DEF Next, vars, NextDay, IngestPrices, ImportBulletin, IngestFundamentals, IngestItems, StartTest, Finish
  <2>4. test'.log # test.log  BY <2>2
  <2>5. PICK e : test'.log = Append(test.log, e) /\ DecidesAs(e)  BY <2>3, <2>4, WalkMoves
  <2>6. test'.log[Len(test'.log)] = e  BY <2>1, <2>5, Appended
  <2>7. e.targets = Targets(test.strategy, View(bars, statements, e.day), Universe)
    BY <2>5, <2>6 DEF DecidesAs
  <2>8. e.targets = Targets(test.strategy, View(Past(e.day), Filed(e.day), e.day), Universe)
    BY <2>7, SameTargets
  <2> QED  BY <2>6, <2>8
<1> HIDE DEF Decided
<1>2. Spec => [][Decided]_vars  BY <1>1, LogInvHolds, PTL DEF Spec
<1> QED  BY <1>2 DEF NoLookAhead, Decided

------------------------------------------------------------------------------
(* Order by rank.                                                          *)

\* How many of S come before x.
Rank(S, R, x) == Cardinality({y \in S : <<y, x>> \in R})

IsOrder(S, R) ==
    /\ \A x \in S : <<x, x>> \notin R
    /\ \A x, y, z \in S : <<x, y>> \in R /\ <<y, z>> \in R => <<x, z>> \in R
    /\ \A x, y \in S : x # y => <<x, y>> \in R \/ <<y, x>> \in R

\* In a strict order of a finite set every rank is taken once.
LEMMA RanksFill ==
    ASSUME NEW S, IsFiniteSet(S), NEW R, IsOrder(S, R)
    PROVE  \A i \in 1..Cardinality(S) : \E x \in S : Rank(S, R, x) = i - 1
<1> DEFINE below(x) == {y \in S : <<y, x>> \in R}
           n == Cardinality(S)
           rank == [x \in S |-> Cardinality(below(x))]
<1>1. n \in Nat  BY FS_CardinalityType
<1>2. ASSUME NEW x \in S PROVE rank[x] \in 0..(n - 1)
  <2>1. below(x) \in SUBSET S /\ below(x) # S  BY DEF IsOrder
  <2> HIDE DEF below
  <2>2. IsFiniteSet(below(x)) /\ Cardinality(below(x)) <= n /\ Cardinality(below(x)) # n
    BY <2>1, FS_Subset
  <2>3. Cardinality(below(x)) \in Nat  BY <2>2, FS_CardinalityType
  <2> QED  BY <1>1, <2>2, <2>3
<1>3. ASSUME NEW x \in S, NEW y \in S, <<x, y>> \in R PROVE rank[x] < rank[y]
  <2>1. below(x) \in SUBSET below(y)  BY <1>3 DEF IsOrder
  <2>2. below(x) # below(y)  BY <1>3 DEF IsOrder
  <2>3. below(y) \in SUBSET S  OBVIOUS
  <2> HIDE DEF below
  <2>4. IsFiniteSet(below(y))  BY <2>3, FS_Subset
  <2>5. IsFiniteSet(below(x)) /\ Cardinality(below(x)) <= Cardinality(below(y))
        /\ Cardinality(below(x)) # Cardinality(below(y))
    BY <2>1, <2>2, <2>4, FS_Subset
  <2>6. Cardinality(below(x)) \in Nat /\ Cardinality(below(y)) \in Nat
    BY <2>4, <2>5, FS_CardinalityType
  <2> QED  BY <2>5, <2>6
<1>4. \A x, y \in S : rank[x] = rank[y] => x = y
  <2> SUFFICES ASSUME NEW x \in S, NEW y \in S, rank[x] = rank[y], x # y PROVE FALSE  OBVIOUS
  <2>1. <<x, y>> \in R \/ <<y, x>> \in R  BY DEF IsOrder
  <2>2. rank[x] \in Int /\ rank[y] \in Int  BY <1>2
  <2> HIDE DEF rank
  <2> QED  BY <1>3, <2>1, <2>2
<1>5. rank \in Injection(S, 0..(n - 1))
  <2>1. rank \in [S -> 0..(n - 1)]  BY <1>2
  <2> HIDE DEF rank
  <2> QED  BY <1>4, <2>1 DEF Injection, IsInjective
<1>6. IsFiniteSet(0..(n - 1)) /\ Cardinality(0..(n - 1)) = n
  BY <1>1, FS_Interval
<1>7. rank \in Surjection(S, 0..(n - 1))
  <2> HIDE DEF rank
  <2> QED  BY <1>5, <1>6, FS_Injection
<1>8. ASSUME NEW i \in 1..n PROVE \E x \in S : Cardinality(below(x)) = i - 1
  <2>1. i - 1 \in 0..(n - 1)  BY <1>1
  <2>2. PICK x \in S : rank[x] = i - 1
    <3> HIDE DEF rank
    <3> QED  BY <1>7, <2>1 DEF Surjection
  <2> QED  BY <2>2
<1> QED  BY <1>8 DEF Rank

\* A sequence of the elements of S, each once.
Lists(s, S) ==
    /\ s \in Seq(S) /\ Len(s) = Cardinality(S) /\ DOMAIN s = 1..Cardinality(S)
    /\ Cardinality(S) \in Nat
    /\ \A i, j \in DOMAIN s : s[i] = s[j] => i = j

\* A function on the first n numbers is a sequence.
LEMMA FunctionLists ==
    ASSUME NEW S, NEW n \in Nat, NEW s \in [1..n -> S]
    PROVE  s \in Seq(S) /\ Len(s) = n /\ DOMAIN s = 1..n
  OBVIOUS

\* What is chosen at each rank lists the set.
LEMMA RankedLists ==
    ASSUME NEW S, IsFiniteSet(S), NEW R, IsOrder(S, R), NEW s,
           s = [i \in 1..Cardinality(S) |-> s[i]],
           \A i \in 1..Cardinality(S) :
              (\E x \in S : Rank(S, R, x) = i - 1) => s[i] \in S /\ Rank(S, R, s[i]) = i - 1
    PROVE  Lists(s, S)
<1>1. Cardinality(S) \in Nat  BY FS_CardinalityType
<1>2. \A i \in 1..Cardinality(S) : s[i] \in S /\ Rank(S, R, s[i]) = i - 1
  BY RanksFill
<1>4. s \in [1..Cardinality(S) -> S]  BY <1>2
<1>6. s \in Seq(S) /\ Len(s) = Cardinality(S) /\ DOMAIN s = 1..Cardinality(S)
  BY <1>1, <1>4, FunctionLists
<1>7. \A i, j \in DOMAIN s : s[i] = s[j] => i = j
  <2>1. \A i \in DOMAIN s : i \in Int  BY <1>1, <1>6
  <2> QED  BY <1>2, <1>6, <2>1
<1> QED  BY <1>1, <1>6, <1>7 DEF Lists

\* The increasing order of numbers.
LEMMA NumbersOrdered ==
    ASSUME NEW S, IsFiniteSet(S), S \subseteq Int
    PROVE  Lists(InOrder(S, LAMBDA a, b : a < b), S)
<1> DEFINE R == {p \in S \X S : p[1] < p[2]}
           below(x) == Cardinality({y \in S : y < x})
           chosen(i) == CHOOSE x \in S : below(x) = i - 1
           s == [i \in 1..Cardinality(S) |-> chosen(i)]
<1>1. \A x, y \in S : <<x, y>> \in R <=> x < y  OBVIOUS
<1>2. IsOrder(S, R)
  <2> HIDE DEF R
  <2> QED  BY <1>1 DEF IsOrder
<1>3. \A x \in S : {y \in S : y < x} = {y \in S : <<y, x>> \in R}  BY <1>1
<1> HIDE DEF R
<1>4. \A x \in S : below(x) = Rank(S, R, x)  BY <1>3 DEF Rank
<1> HIDE DEF below
<1>5. \A i : (\E x \in S : Rank(S, R, x) = i - 1) => chosen(i) \in S /\ Rank(S, R, chosen(i)) = i - 1
  BY <1>4
<1>6. InOrder(S, LAMBDA a, b : a < b) = s  BY DEF InOrder, below
<1> HIDE DEF chosen
<1>7. s = [i \in 1..Cardinality(S) |-> s[i]] /\ \A i \in 1..Cardinality(S) : s[i] = chosen(i)
  OBVIOUS
<1> HIDE DEF s
<1>8. Lists(s, S)
  <2>1. s = [i \in 1..Cardinality(S) |-> s[i]]  BY <1>7
  <2>2. \A i \in 1..Cardinality(S) :
           (\E x \in S : Rank(S, R, x) = i - 1) => s[i] \in S /\ Rank(S, R, s[i]) = i - 1
    BY <1>5, <1>7
  <2> QED  BY <1>2, <2>1, <2>2, RankedLists
<1> QED  BY <1>6, <1>8

\* Best first.
LEMMA BestLists ==
    ASSUME NEW f, IsFiniteSet(DOMAIN f), DOMAIN f \subseteq Int, \A i \in DOMAIN f : f[i] \in Int
    PROVE  Lists(Best(f), DOMAIN f)
<1> DEFINE S == DOMAIN f
           R == {p \in S \X S : f[p[1]] > f[p[2]] \/ (f[p[1]] = f[p[2]] /\ p[1] < p[2])}
           below(x) == Cardinality({y \in S : f[y] > f[x] \/ (f[y] = f[x] /\ y < x)})
           chosen(i) == CHOOSE x \in S : below(x) = i - 1
           s == [i \in 1..Cardinality(S) |-> chosen(i)]
<1>1. \A x, y \in S : <<x, y>> \in R <=> f[x] > f[y] \/ (f[x] = f[y] /\ x < y)  OBVIOUS
<1>2. IsOrder(S, R)
  <2> HIDE DEF R
  <2> QED  BY <1>1 DEF IsOrder
<1>3. \A x \in S : {y \in S : f[y] > f[x] \/ (f[y] = f[x] /\ y < x)} = {y \in S : <<y, x>> \in R}
  BY <1>1
<1> HIDE DEF R
<1>4. \A x \in S : below(x) = Rank(S, R, x)  BY <1>3 DEF Rank
<1> HIDE DEF below
<1>5. \A i : (\E x \in S : Rank(S, R, x) = i - 1) => chosen(i) \in S /\ Rank(S, R, chosen(i)) = i - 1
  BY <1>4
<1>6. Best(f) = s  BY DEF Best, InOrder, below
<1> HIDE DEF chosen
<1>7. s = [i \in 1..Cardinality(S) |-> s[i]] /\ \A i \in 1..Cardinality(S) : s[i] = chosen(i)
  OBVIOUS
<1> HIDE DEF s
<1>8. Lists(s, S)
  <2>1. s = [i \in 1..Cardinality(S) |-> s[i]]  BY <1>7
  <2>2. \A i \in 1..Cardinality(S) :
           (\E x \in S : Rank(S, R, x) = i - 1) => s[i] \in S /\ Rank(S, R, s[i]) = i - 1
    BY <1>5, <1>7
  <2> HIDE DEF S
  <2> QED  BY <1>2, <2>1, <2>2, RankedLists DEF S
<1> QED  BY <1>6, <1>8

\* The elements at some places of a sequence, in their order: the at of Keep.
Places(I) == InOrder(I, LAMBDA i, j : i < j)

LEMMA KeptLists ==
    ASSUME NEW W, NEW s \in Seq(W), NEW I, I \subseteq DOMAIN s, NEW r,
           r = [k \in DOMAIN Places(I) |-> s[Places(I)[k]]]
    PROVE  /\ IsFiniteSet(I) /\ Lists(Places(I), I)
           /\ r \in Seq(W) /\ DOMAIN r = DOMAIN Places(I)
           /\ \A k \in DOMAIN r : Places(I)[k] \in I /\ r[k] = s[Places(I)[k]]
<1> DEFINE at == Places(I)
<1>1. DOMAIN s = 1..Len(s) /\ Len(s) \in Nat  OBVIOUS
<1>2. IsFiniteSet(DOMAIN s)  BY <1>1, FS_Interval
<1>3. IsFiniteSet(I) /\ I \subseteq Int  BY <1>1, <1>2, FS_Subset
<1>4. Lists(at, I)  BY <1>3, NumbersOrdered DEF Places
<1>5. DOMAIN at = 1..Cardinality(I) /\ Cardinality(I) \in Nat /\ \A k \in DOMAIN at : at[k] \in I
  BY <1>4 DEF Lists
<1> HIDE DEF at
<1>6. r = [k \in DOMAIN at |-> s[at[k]]]  BY DEF at
<1>7. \A k \in DOMAIN at : s[at[k]] \in W  BY <1>5
<1>8. r \in [1..Cardinality(I) -> W]  BY <1>5, <1>6, <1>7
<1>9. r \in Seq(W)  BY <1>5, <1>8, FunctionLists
<1>10. DOMAIN r = DOMAIN at /\ \A k \in DOMAIN r : at[k] \in I /\ r[k] = s[at[k]]
  BY <1>5, <1>6
<1> QED  BY <1>3, <1>4, <1>9, <1>10 DEF at

------------------------------------------------------------------------------
(* Sums and folds.  Folding's theorems hold of its own copies of the        *)
(* library's definitions, which are the same.                               *)

Sells == INSTANCE Folding WITH Op <- LAMBDA c, b, n : SellDown(c, b, n), Term <- LAMBDA c, x : 0
Buys == INSTANCE Folding WITH Op <- LAMBDA c, b, t : BuyUp(c, b, t), Term <- LAMBDA c, x : 0
Spreads == INSTANCE Folding WITH Op <- LAMBDA c, w, round : Evaluated(Redistribute(w, c)),
                                 Term <- LAMBDA c, x : 0

SumOver(f, S) == Sells!SumFunctionOnSet(f, S)

\* Sums are the sums that Folding is about.
LEMMA SumsSame ==
    /\ \A S : IsFiniteSet(S) <=> Sells!IsFiniteSet(S)
    /\ \A f, S : SumFunctionOnSet(f, S) = SumOver(f, S)
    /\ \A f : SumFunction(f) = SumOver(f, DOMAIN f)
  BY DEF IsFiniteSet, Sells!IsFiniteSet, SumOver, SumFunction, SumFunctionOnSet, FoldFunctionOnSet,
         MapThenFoldSet, Sells!SumFunctionOnSet, Sells!FoldFunctionOnSet, Sells!MapThenFoldSet

\* Working a value out does not change it.
LEMMA WorkedOut ==
    /\ \A f : Evaluated(f) = f
    /\ \A e : The({e}) = e
  BY DEF Evaluated, The

\* A nonempty set of numbers up to one has a greatest, and Max is in it.
LEMMA MaxAmong ==
    ASSUME NEW t \in Nat, NEW S, S \subseteq 1..t, S # {}
    PROVE  Max(S) \in S /\ \A y \in S : Max(S) >= y
<1> DEFINE M == {t - x : x \in S}
<1>1. M \subseteq Nat /\ M # {}
  <2>1. \A x \in S : t - x \in Nat  OBVIOUS
  <2> QED  BY <2>1
<1>2. PICK m \in M : \A y \in M : m <= y
  <2> HIDE DEF M
  <2> QED  BY <1>1, Sells!LeastNatural
<1>3. PICK x \in S : m = t - x  BY <1>2
<1>4. \A y \in S : x >= y
  <2> SUFFICES ASSUME NEW y \in S PROVE x >= y  OBVIOUS
  <2>1. t - x <= t - y  BY <1>2, <1>3
  <2>2. x \in Int /\ y \in Int  OBVIOUS
  <2> QED  BY <2>1, <2>2
<1> QED  BY <1>4 DEF Max

\* And a least one.
LEMMA MinAmong ==
    ASSUME NEW S, S \subseteq Nat, S # {}
    PROVE  Min(S) \in S /\ \A y \in S : Min(S) <= y
<1>1. \E x \in S : \A y \in S : x <= y  BY Sells!LeastNatural
<1> QED  BY <1>1 DEF Min

\* The lesser of two.
LEMMA MinOfTwo ==
    ASSUME NEW a \in Int, NEW b \in Int
    PROVE  Min({a, b}) = IF a <= b THEN a ELSE b
<1> DEFINE m == IF a <= b THEN a ELSE b
<1>1. m \in {a, b} /\ \A y \in {a, b} : m <= y  OBVIOUS
<1>2. \A x \in {a, b} : (\A y \in {a, b} : x <= y) => x = m  OBVIOUS
<1> HIDE DEF m
<1>3. Min({a, b}) = m  BY <1>1, <1>2 DEF Min
<1> QED  BY <1>3 DEF m

------------------------------------------------------------------------------
(* What is stored has the types of prices.                                  *)

\* A bar with numbers for prices, and a source.
Typed(bar) ==
    /\ "close" \in DOMAIN bar /\ bar.close \in Int /\ bar.adjusted \in Int
    /\ bar.confidence \in Confidences

TypedBars(f, day) == DOMAIN f \subseteq 1..day /\ \A d \in DOMAIN f : Typed(f[d])

BarsInv ==
    /\ today \in FirstDay..LastDay
    /\ bars = [n \in Names |-> bars[n]]
    /\ \A n \in Names : TypedBars(bars[n], today)
    /\ DOMAIN statements = Range(Universe)

\* The days are numbers from one.
LEMMA TodayIs == BarsInv => today \in Nat \ {0} /\ today <= LastDay
  BY HistoryAssumption DEF BarsInv

\* The label of a source does not touch the figures.
LEMMA LabelKeeps ==
    ASSUME NEW b \in Payload, NEW provider, provider.confidence \in Confidences
    PROVE  LET l == Labelled(b, provider)
           IN  /\ l.day = b.day /\ l.close = b.close /\ l.adjusted = b.adjusted
               /\ "close" \in DOMAIN l /\ l.confidence \in Confidences
<1>1. DOMAIN b = {"day", "open", "high", "low", "close", "adjusted", "volume"}  BY DEF Payload
<1> DEFINE c == Put(b, "confidence", provider.confidence)
<1>2. /\ DOMAIN c = DOMAIN b \cup {"confidence"} /\ c["confidence"] = provider.confidence
      /\ \A f \in DOMAIN b : c[f] = b[f]
  BY <1>1 DEF Put
<1> HIDE DEF c
<1> DEFINE e == Put(c, "fake", provider.fake)
<1>3. DOMAIN c \subseteq DOMAIN e /\ \A f \in DOMAIN c : e[f] = c[f]  BY <1>1, <1>2 DEF Put
<1> HIDE DEF e
<1> DEFINE l == Put(e, "source", provider.name)
<1>4. DOMAIN e \subseteq DOMAIN l /\ \A f \in DOMAIN c : l[f] = e[f]  BY <1>1, <1>2, <1>3 DEF Put
<1>5. Labelled(b, provider) = l  BY DEF Labelled, c, e
<1> HIDE DEF l
<1>6. l["day"] = b["day"] /\ l["close"] = b["close"] /\ l["adjusted"] = b["adjusted"]
      /\ l["confidence"] = provider.confidence /\ "close" \in DOMAIN l
  BY <1>1, <1>2, <1>3, <1>4
<1> QED  BY <1>5, <1>6

\* _store_bars: bars of up to a day are added to such.
LEMMA StoreTypes ==
    ASSUME NEW day \in Nat, NEW old, TypedBars(old, day),
           NEW payload \in Seq(Payload), \A i \in DOMAIN payload : payload[i].day <= day,
           NEW provider, provider.confidence \in Confidences
    PROVE  TypedBars(StoreBars(old, payload, provider), day)
<1> DEFINE countable == {Labelled(b, provider) : b \in Countable(payload)}
           wins(b) == b.day \notin DOMAIN old \/ ShouldReplace(old[b.day], b)
           taken == {b \in countable : wins(b)}
           days == {b.day : b \in taken}
           new == StoreBars(old, payload, provider)
<1>1. new = [e \in days \cup DOMAIN old |->
                IF e \in days THEN CHOOSE b \in taken : b.day = e ELSE old[e]]
  BY DEF StoreBars
<1>2. ASSUME NEW b \in Countable(payload) PROVE b \in Payload /\ b.day \in 1..day
  <2>1. PICK i \in DOMAIN payload : b = payload[i] /\ Known(payload[i].day)
    BY <1>2 DEF Countable
  <2>2. b \in Payload /\ b.day <= day /\ b.day # NA  BY <2>1 DEF Known
  <2>3. b.day \in (Nat \ {0}) \cup {NA}  BY <2>2 DEF Payload
  <2> QED  BY <2>2, <2>3 DEF NA
<1>3. ASSUME NEW l \in taken PROVE Typed(l) /\ l.day \in 1..day
  <2>1. PICK b \in Countable(payload) : l = Labelled(b, provider)  BY <1>3
  <2>2. b \in Payload /\ b.day \in 1..day  BY <1>2
  <2>3. l.day = b.day /\ l.close = b.close /\ l.adjusted = b.adjusted /\ l.confidence \in Confidences
        /\ "close" \in DOMAIN l
    BY <2>1, <2>2, LabelKeeps
  <2> QED  BY <2>2, <2>3 DEF Payload, Typed
<1> HIDE DEF taken
<1>4. days \subseteq 1..day  BY <1>3
<1>5. ASSUME NEW e \in days PROVE Typed(CHOOSE b \in taken : b.day = e)
  <2>1. \E b \in taken : b.day = e  OBVIOUS
  <2> QED  BY <1>3, <2>1
<1>6. \A e \in DOMAIN old : Typed(old[e])  BY DEF TypedBars
<1> HIDE DEF days, new
<1>7. DOMAIN new = days \cup DOMAIN old  BY <1>1
<1>8. \A e \in DOMAIN new : Typed(new[e])
  <2> SUFFICES ASSUME NEW e \in DOMAIN new PROVE Typed(new[e])  OBVIOUS
  <2>1. CASE e \in days
    <3>1. new[e] = CHOOSE b \in taken : b.day = e  BY <1>1, <1>7, <2>1
    <3> QED  BY <1>5, <2>1, <3>1
  <2>2. CASE e \notin days
    <3>1. new[e] = old[e] /\ e \in DOMAIN old  BY <1>1, <1>7, <2>2
    <3> QED  BY <1>6, <3>1
  <2> QED  BY <2>1, <2>2
<1>9. DOMAIN new \subseteq 1..day  BY <1>4, <1>7 DEF TypedBars
<1> QED  BY <1>8, <1>9 DEF TypedBars, new

\* ingest_bulletin: a bar of the day of the bulletin is added.
LEMMA BulletinTypes ==
    ASSUME NEW day \in Nat, NEW old, TypedBars(old, day), NEW n,
           NEW bulletin \in Bulletins, bulletin.day <= day
    PROVE  TypedBars(StoreBulletin(old, bulletin, n), day)
<1> DEFINE rows == RowsOf(bulletin, n)
           bar(row) == BulletinBar(bulletin, row)
           new == Put(old, bulletin.day, bar(bulletin.rows[Max(rows)]))
<1>1. CASE rows = {}  BY <1>1 DEF StoreBulletin
<1>2. CASE rows # {}
  <2>1. /\ bulletin.day \in 1..day
        /\ bulletin.rows \in Seq(Range(bulletin.rows))
        /\ \A i \in DOMAIN bulletin.rows : bulletin.rows[i].close \in Nat \ {0}
    BY HistoryAssumption
  <2>2. /\ rows \subseteq 1..Len(bulletin.rows) /\ Len(bulletin.rows) \in Nat
        /\ DOMAIN bulletin.rows = 1..Len(bulletin.rows)
    BY <2>1 DEF RowsOf
  <2>3. Max(rows) \in rows
    <3> HIDE DEF rows
    <3> QED  BY <1>2, <2>2, MaxAmong
  <2> HIDE DEF rows
  <2>4. bulletin.rows[Max(rows)].close \in Int
    <3> DEFINE i == Max(rows)
    <3>1. i \in DOMAIN bulletin.rows  BY <2>2, <2>3
    <3> HIDE DEF i
    <3>2. bulletin.rows[i].close \in Nat  BY <2>1, <3>1
    <3> QED  BY <3>2 DEF i
  <2>5. Typed(bar(bulletin.rows[Max(rows)]))  BY <2>4 DEF Typed, BulletinBar, Confidences
  <2> HIDE DEF bar
  <2>6. DOMAIN new = DOMAIN old \cup {bulletin.day}
        /\ \A d \in DOMAIN new : new[d] = IF d = bulletin.day THEN bar(bulletin.rows[Max(rows)]) ELSE old[d]
    BY DEF Put
  <2> HIDE DEF new
  <2>7. TypedBars(new, day)  BY <2>1, <2>5, <2>6 DEF TypedBars
  <2>8. StoreBulletin(old, bulletin, n) = new  BY <1>2 DEF StoreBulletin, new, rows, bar
  <2> QED  BY <2>7, <2>8
<1> QED  BY <1>1, <1>2

\* fetch_prices: what a chain answers are the bars of a provider, up to the day.
LEMMA CallTypes ==
    ASSUME today \in Nat, NEW n, NEW failed, PriceCall(n, failed).from # 0
    PROVE  LET call == PriceCall(n, failed)
           IN  /\ call.from \in DOMAIN PriceProviders
               /\ call.data \in Seq(Payload)
               /\ \A i \in DOMAIN call.data : call.data[i].day <= today
<1> DEFINE asked(i) == Asked(PriceProviders[i].prices, n)
           soon(i) == {k \in DOMAIN asked(i) : asked(i)[k].day <= today}
           answer(i) == [k \in DOMAIN Places(soon(i)) |-> asked(i)[Places(soon(i))[k]]]
           answers == [i \in DOMAIN PriceProviders |-> answer(i)]
           gives == {i \in DOMAIN answers \ failed : answers[i] # <<>>}
           from == IF gives = {} THEN 0 ELSE Min(gives)
<1>1. \A i : Keep(asked(i), LAMBDA b : b.day <= today) = answer(i)  BY DEF Keep, Places
<1>2. PriceCall(n, failed) = [data |-> IF from = 0 THEN <<>> ELSE answers[from], from |-> from]
  <2> DEFINE kept(i) == Keep(asked(i), LAMBDA b : b.day <= today)
  <2>1. PriceCall(n, failed) = Call([i \in DOMAIN PriceProviders |-> kept(i)], failed)
    BY DEF PriceCall
  <2>2. \A i : kept(i) = answer(i)  BY <1>1
  <2> HIDE DEF kept, answer
  <2>3. [i \in DOMAIN PriceProviders |-> kept(i)] = answers  BY <2>2
  <2>4. PriceCall(n, failed) = Call(answers, failed)  BY <2>1, <2>3
  <2> HIDE DEF answers
  <2> QED  BY <2>4 DEF Call
<1>3. DOMAIN answers = DOMAIN PriceProviders /\ DOMAIN PriceProviders \subseteq Nat
  BY HistoryAssumption
<1>4. \A i \in DOMAIN PriceProviders : asked(i) \in Seq(Payload)
  BY HistoryAssumption DEF Asked
<1>5. ASSUME NEW i \in DOMAIN PriceProviders
      PROVE  answer(i) \in Seq(Payload) /\ \A k \in DOMAIN answer(i) : answer(i)[k].day <= today
  <2>1. asked(i) \in Seq(Payload)  BY <1>4
  <2> HIDE DEF asked
  <2>2. soon(i) \subseteq DOMAIN asked(i)  OBVIOUS
  <2> DEFINE r == answer(i)
  <2>3. r = [k \in DOMAIN Places(soon(i)) |-> asked(i)[Places(soon(i))[k]]]  OBVIOUS
  <2> HIDE DEF r
  <2>4. r \in Seq(Payload) /\ \A k \in DOMAIN r : /\ Places(soon(i))[k] \in soon(i)
                                                  /\ r[k] = asked(i)[Places(soon(i))[k]]
    BY <2>1, <2>2, <2>3, KeptLists
  <2>5. \A k \in DOMAIN r : r[k].day <= today  BY <2>4
  <2> QED  BY <2>4, <2>5 DEF r
<1>6. \A i \in DOMAIN PriceProviders : answers[i] = answer(i)  OBVIOUS
<1> HIDE DEF answer, answers
<1>7. gives # {} /\ from = Min(gives)  BY <1>2
<1>8. gives \subseteq Nat  BY <1>3
<1>9. from \in gives
  <2> HIDE DEF gives
  <2> QED  BY <1>7, <1>8, MinAmong
<1>10. from \in DOMAIN PriceProviders  BY <1>3, <1>9
<1>11. PriceCall(n, failed).from = from /\ PriceCall(n, failed).data = answers[from]
  BY <1>2
<1> HIDE DEF from
<1> QED  BY <1>5, <1>6, <1>10, <1>11

LEMMA BarsInit == Init => BarsInv
<1> SUFFICES ASSUME Init PROVE BarsInv  OBVIOUS
<1>1. bars = [n \in Names |-> <<>>] /\ today = FirstDay /\ statements = [n \in Range(Universe) |-> <<>>]
  BY DEF Init
<1>2. today \in FirstDay..LastDay  BY <1>1, HistoryAssumption
<1>3. \A n \in Names : TypedBars(bars[n], today)  BY <1>1, <1>2 DEF TypedBars
<1> QED  BY <1>1, <1>2, <1>3 DEF BarsInv

\* What is stored keeps its types, whatever is ingested.
LEMMA BarsStep == BarsInv /\ [Next]_vars => BarsInv'
<1> SUFFICES ASSUME BarsInv, [Next]_vars PROVE BarsInv'  OBVIOUS
<1>1. today \in Nat \ {0}  BY TodayIs
<1>2. CASE UNCHANGED <<today, stored>>  BY <1>2 DEF BarsInv, stored
<1>3. CASE NextDay
  <2>1. today' = today + 1 /\ bars' = bars /\ statements' = statements /\ today < LastDay
    BY <1>3 DEF NextDay, stored
  <2>2. \A n \in Names : TypedBars(bars[n], today + 1)  BY <1>1 DEF BarsInv, TypedBars
  <2>3. today + 1 \in FirstDay..LastDay  BY <2>1, HistoryAssumption DEF BarsInv
  <2> QED  BY <2>1, <2>2, <2>3 DEF BarsInv
<1>4. ASSUME NEW names, NEW failed, IngestPrices(names, failed) PROVE BarsInv'
  <2> DEFINE call == [n \in names |-> PriceCall(n, failed)]
             new(n) == IF n \in names /\ call[n].from # 0
                       THEN StoreBars(bars[n], call[n].data, PriceProviders[call[n].from])
                       ELSE bars[n]
  <2>1. bars' = [n \in Names |-> new(n)] /\ UNCHANGED <<today, statements>>
    BY <1>4 DEF IngestPrices
  <2>2. ASSUME NEW n \in Names PROVE TypedBars(new(n), today)
    <3>1. TypedBars(bars[n], today)  BY DEF BarsInv
    <3>2. CASE n \in names /\ call[n].from # 0
      <4>1. call[n] = PriceCall(n, failed) /\ PriceCall(n, failed).from # 0  BY <3>2
      <4>2. /\ call[n].from \in DOMAIN PriceProviders
            /\ call[n].data \in Seq(Payload)
            /\ \A i \in DOMAIN call[n].data : call[n].data[i].day <= today
        BY <1>1, <4>1, CallTypes
      <4>3. PriceProviders[call[n].from].confidence \in Confidences  BY <4>2, HistoryAssumption
      <4> HIDE DEF call
      <4>4. TypedBars(StoreBars(bars[n], call[n].data, PriceProviders[call[n].from]), today)
        BY <1>1, <3>1, <4>2, <4>3, StoreTypes
      <4> QED  BY <3>2, <4>4
    <3>3. CASE ~ (n \in names /\ call[n].from # 0)  BY <3>1, <3>3
    <3> QED  BY <3>2, <3>3
  <2> HIDE DEF new
  <2>3. \A n \in Names : bars'[n] = new(n)  BY <2>1
  <2>4. bars' = [n \in Names |-> bars'[n]]  BY <2>1
  <2> QED  BY <2>1, <2>2, <2>3, <2>4 DEF BarsInv
<1>5. ASSUME NEW version, NEW failed, IngestFundamentals(version, failed) PROVE BarsInv'
  <2>1. UNCHANGED <<today, bars>> /\ DOMAIN statements' = Range(Universe)
    BY <1>5 DEF IngestFundamentals
  <2> QED  BY <2>1 DEF BarsInv
<1>6. \/ UNCHANGED <<today, stored>> \/ NextDay
      \/ \E names, failed : IngestPrices(names, failed)
      \/ \E bulletin \in Bulletins : ImportBulletin(bulletin)
      \/ \E version, failed : IngestFundamentals(version, failed)
      \/ \E keys : IngestItems(keys)
  BY DEF Next, vars, stored, StartTest, Walk, Finish
<1>7. ASSUME NEW keys, IngestItems(keys) PROVE BarsInv'
  BY <1>7 DEF IngestItems, BarsInv
<1>8. ASSUME NEW bulletin \in Bulletins, ImportBulletin(bulletin) PROVE BarsInv'
  <2> DEFINE lost == \E m \in Names : /\ bulletin.day \notin DOMAIN bars[m]
                                      /\ Cardinality(RowsOf(bulletin, m)) > 1
             new(n) == IF lost THEN bars[n] ELSE StoreBulletin(bars[n], bulletin, n)
  <2>1. bars' = [n \in Names |-> new(n)] /\ UNCHANGED <<today, statements>> /\ bulletin.day <= today
    BY <1>8 DEF ImportBulletin
  <2>2. ASSUME NEW n \in Names PROVE TypedBars(new(n), today)
    BY <1>1, <2>1, BulletinTypes DEF BarsInv
  <2> HIDE DEF new
  <2>3. \A n \in Names : bars'[n] = new(n)  BY <2>1
  <2>4. bars' = [n \in Names |-> bars'[n]]  BY <2>1
  <2> QED  BY <2>1, <2>2, <2>3, <2>4 DEF BarsInv
<1> QED  BY <1>2, <1>3, <1>4, <1>5, <1>6, <1>7, <1>8

LEMMA BarsInvHolds == Spec => []BarsInv
  BY BarsInit, BarsStep, PTL DEF Spec

\* "Historical data is never destroyed": no number of fetches from any chain of
\* providers, and of bulletins, takes a bar away or lowers its confidence, and
\* only a bulletin replaces a bar of the same confidence by one no more complete.
THEOREM HistoryKept == Spec => ConfidenceNeverDrops
<1> DEFINE Better(old, new) ==
              \/ new = old
              \/ ConfidenceRank[new.confidence] > ConfidenceRank[old.confidence]
              \/ /\ ConfidenceRank[new.confidence] = ConfidenceRank[old.confidence]
                 /\ Filled(new) > Filled(old) \/ new.source = "EGX:bulletin"
           Kept(n, d) == LET old == bars[n][d]
                             new == bars'[n][d]
                         IN  /\ d \in DOMAIN bars'[n]
                             /\ \/ new = old
                                \/ ConfidenceRank[new.confidence] > ConfidenceRank[old.confidence]
                                \/ /\ ConfidenceRank[new.confidence] = ConfidenceRank[old.confidence]
                                   /\ Filled(new) > Filled(old) \/ new.source = "EGX:bulletin"
           Kept0 == \A n \in Names : \A d \in DOMAIN bars[n] : Kept(n, d)
<1>1. BarsInv /\ [Next]_vars => [Kept0]_vars
  <2> SUFFICES ASSUME BarsInv, [Next]_vars, NEW n \in Names, NEW d \in DOMAIN bars[n]
               PROVE  Kept(n, d)
    OBVIOUS
  <2>1. CASE UNCHANGED bars  BY <2>1
  <2>2. ASSUME NEW names, NEW failed, IngestPrices(names, failed) PROVE Kept(n, d)
    BY <2>2, PricesKeep DEF ShouldReplace
  <2>3. ASSUME NEW bulletin, ImportBulletin(bulletin) PROVE Kept(n, d)
    <3>1. bars[n][d].confidence \in Confidences  BY DEF BarsInv, TypedBars, Typed
    <3>2. ASSUME NEW c \in Confidences PROVE ConfidenceRank["HIGH"] = ConfidenceRank[c]
                                             \/ ConfidenceRank["HIGH"] > ConfidenceRank[c]
      BY DEF Confidences, ConfidenceRank
    <3>3. d \in DOMAIN bars'[n]  BY <2>3, BulletinKeeps
    <3>4. CASE bars'[n][d] = bars[n][d]  BY <3>3, <3>4
    <3>5. CASE bars'[n][d].confidence = "HIGH" /\ bars'[n][d].source = "EGX:bulletin"
      <4> DEFINE old == bars[n][d]
                 new == bars'[n][d]
      <4> HIDE DEF old, new
      <4>1. new.confidence = "HIGH" /\ new.source = "EGX:bulletin" /\ old.confidence \in Confidences
        BY <3>1, <3>5 DEF old, new
      <4>2. Better(old, new)  BY <3>2, <4>1
      <4> QED  BY <3>3, <4>2 DEF old, new
    <3> QED  BY <2>3, <3>4, <3>5, BulletinKeeps
  <2>4. \/ UNCHANGED bars
        \/ \E names, failed : IngestPrices(names, failed)
        \/ \E bulletin : ImportBulletin(bulletin)
    BY DEF Next, vars, stored, NextDay, IngestFundamentals, IngestItems, StartTest, Walk, Finish
  <2> QED  BY <2>1, <2>2, <2>3, <2>4
<1> HIDE DEF Kept0
<1>2. Spec => [][Kept0]_vars  BY <1>1, BarsInvHolds, PTL DEF Spec
<1> QED  BY <1>2 DEF ConfidenceNeverDrops, Kept0

------------------------------------------------------------------------------
(* What a view answers are numbers.                                         *)

\* price: that of a day is one of the days stored, or not known.
LEMMA PriceIsInt ==
    ASSUME BarsInv, NEW day, NEW n \in Names
    PROVE  PriceOn(View(bars, statements, day), n) \in Int
<1> DEFINE v == View(bars, statements, day)
           days == {d \in DOMAIN bars[n] : d <= day}
           seen == [d \in days |-> bars[n][d]]
<1>1. v.bars = bars /\ v.as_of = day  BY DEF View
<1>2. BarsSeen(v, n) = seen  BY <1>1 DEF BarsSeen, Restrict
<1>3. today \in Nat  BY TodayIs
<1>4. days \subseteq 1..today /\ \A d \in days : Typed(bars[n][d])
  BY DEF BarsInv, TypedBars
<1> HIDE DEF v
<1>5. PriceOn(v, n) = IF seen = <<>> THEN NA
                      ELSE IF Known(seen[Max(DOMAIN seen)].close) THEN seen[Max(DOMAIN seen)].close
                           ELSE seen[Max(DOMAIN seen)].adjusted
  BY <1>2 DEF PriceOn
<1>6. CASE days = {}
  <2>1. seen = <<>>  BY <1>6
  <2> QED  BY <1>5, <2>1 DEF NA, v
<1>7. CASE days # {}
  <2> HIDE DEF days
  <2>1. Max(days) \in days  BY <1>3, <1>4, <1>7, MaxAmong
  <2>2. DOMAIN seen = days /\ seen[Max(days)] = bars[n][Max(days)]  BY <2>1
  <2>3. Typed(seen[Max(DOMAIN seen)])  BY <1>4, <2>1, <2>2
  <2> HIDE DEF seen
  <2> QED  BY <1>5, <2>3 DEF Typed, NA, v
<1> QED  BY <1>6, <1>7

\* price_series: the closes of a series are numbers.
LEMMA SeriesIsInt ==
    ASSUME BarsInv, NEW day, NEW n \in Names
    PROVE  LET series == PriceSeries(View(bars, statements, day), n)
           IN  /\ DOMAIN series = 1..Len(series) /\ Len(series) \in Nat
               /\ \A i \in DOMAIN series : series[i].close \in Int
<1> DEFINE v == View(bars, statements, day)
           days == {d \in DOMAIN bars[n] : d <= day}
           seen == [d \in days |-> bars[n][d]]
           order == InOrder(days, LAMBDA a, b : a < b)
           row(i) == [seen[order[i]] EXCEPT
                         !.close = IF Known(seen[order[i]].adjusted) THEN seen[order[i]].adjusted
                                   ELSE seen[order[i]].close]
           series == [i \in DOMAIN order |-> row(i)]
<1>1. v.bars = bars /\ v.as_of = day  BY DEF View
<1>2. BarsSeen(v, n) = seen  BY <1>1 DEF BarsSeen, Restrict
<1>3. today \in Nat  BY TodayIs
<1>4. days \subseteq 1..today /\ \A d \in days : Typed(bars[n][d])
  BY DEF BarsInv, TypedBars
<1>5. IsFiniteSet(days) /\ days \subseteq Int
  <2>1. IsFiniteSet(1..today)  BY <1>3, FS_Interval
  <2>2. days \in SUBSET (1..today) /\ \A d \in 1..today : d \in Int  BY <1>4
  <2> HIDE DEF days
  <2> QED  BY <2>1, <2>2, FS_Subset
<1>6. Lists(order, days)
  <2> HIDE DEF days
  <2> QED  BY <1>5, NumbersOrdered
<1>7. DOMAIN seen = days  OBVIOUS
<1> HIDE DEF v
<1>8. PriceSeries(v, n) = series  BY <1>2, <1>7, WorkedOut DEF PriceSeries, SeriesOf
<1>9. ASSUME NEW i \in DOMAIN order PROVE row(i).close \in Int
  <2>1. order[i] \in days
    <3> HIDE DEF order, days
    <3> QED  BY <1>6 DEF Lists
  <2>2. Typed(seen[order[i]])  BY <1>4, <2>1
  <2> DEFINE bar == seen[order[i]]
             close == IF Known(bar.adjusted) THEN bar.adjusted ELSE bar.close
  <2>3. row(i) = [bar EXCEPT !.close = close]  OBVIOUS
  <2> HIDE DEF bar, row
  <2>4. close \in Int /\ "close" \in DOMAIN bar  BY <2>2 DEF Typed, bar
  <2> HIDE DEF close
  <2>5. row(i).close = close  BY <2>3, <2>4
  <2> QED  BY <2>4, <2>5
<1>10. DOMAIN order = 1..Cardinality(days) /\ Cardinality(days) \in Nat  BY <1>6 DEF Lists
<1> HIDE DEF row, days, order
<1>11. DOMAIN series = 1..Cardinality(days) /\ Len(series) = Cardinality(days)  BY <1>10
<1>12. \A i \in DOMAIN series : series[i].close \in Int  BY <1>9
<1> HIDE DEF series
<1> QED  BY <1>8, <1>10, <1>11, <1>12 DEF v

------------------------------------------------------------------------------
(* Scores are numbers, so that a ranking has an order.                      *)

\* build_score: a value on the scale, or none.
LEMMA ScoreIsInt == ASSUME NEW weights, NEW parts PROVE BuildScore(weights, parts).value \in Int
<1>1. \A x : Clamp(0, x, 100) \in Int
  <2> SUFFICES ASSUME NEW x PROVE Clamp(0, x, 100) \in Int  OBVIOUS
  <2>1. CASE x \in 0..100  BY <2>1 DEF Clamp
  <2>2. CASE x \notin 0..100  BY <2>2 DEF Clamp
  <2> QED  BY <2>1, <2>2
<1>2. NA \in Int  BY DEF NA
<1>3. BuildScore(weights, parts).value = NA
      \/ BuildScore(weights, parts).value = Clamp(0, Mean(weights, parts), 100)
  BY DEF BuildScore
<1> QED  BY <1>1, <1>2, <1>3

LEMMA StatementsScored ==
    ASSUME NEW periods, NEW price, NEW shares
    PROVE  AnalyzeFundamentals(periods, price, shares, <<>>, <<>>, NA).score.value \in Int
<1> DEFINE result(m) == [insufficient |-> FALSE, metrics |-> m,
                         score |-> ScoreFundamentals(m, <<>>, <<>>, NA)]
           metrics == ComputeMetrics(periods, price, shares)
           found == AnalyzeFundamentals(periods, price, shares, <<>>, <<>>, NA)
<1>1. \A m : result(m).score.value \in Int
  <2> SUFFICES ASSUME NEW m PROVE ScoreFundamentals(m, <<>>, <<>>, NA).value \in Int  OBVIOUS
  <2> QED  BY ScoreIsInt DEF ScoreFundamentals
<1>2. CASE periods = <<>>
  <2>1. found.score.value = NA  BY <1>2 DEF AnalyzeFundamentals, NoResult
  <2> QED  BY <2>1 DEF NA
<1>3. CASE periods # <<>>
  <2>1. found = The({result(m) : m \in {metrics}})  BY <1>3 DEF AnalyzeFundamentals
  <2> HIDE DEF result, metrics, found
  <2>2. {result(m) : m \in {metrics}} = {result(metrics)}  OBVIOUS
  <2>3. found = result(metrics)  BY <2>1, <2>2, WorkedOut
  <2> QED  BY <1>1, <2>3 DEF found
<1> QED  BY <1>2, <1>3

LEMMA ReadScored ==
    ASSUME NEW series, NEW volatility
    PROVE  AnalyzeTechnical(series, <<>>, volatility).score.value \in Int
<1> DEFINE snapshot == Snapshot(series, <<>>, volatility)
           result(s) == Assessed(s, series)
           found == AnalyzeTechnical(series, <<>>, volatility)
<1>1. \A s : result(s).score.value \in Int
  <2> SUFFICES ASSUME NEW s PROVE ScoreTechnical(s).value \in Int  BY DEF Assessed
  <2> QED  BY ScoreIsInt DEF ScoreTechnical
<1>2. CASE Len(series) < MinBars
  <2>1. found.score.value = NA  BY <1>2 DEF AnalyzeTechnical, NoRead, NoResult
  <2> QED  BY <2>1 DEF NA
<1>3. CASE ~ (Len(series) < MinBars)
  <2>1. found = The({result(s) : s \in {snapshot}})  BY <1>3 DEF AnalyzeTechnical
  <2> HIDE DEF result, snapshot, found
  <2>2. {result(s) : s \in {snapshot}} = {result(snapshot)}  OBVIOUS
  <2>3. found = result(snapshot)  BY <2>1, <2>2, WorkedOut
  <2> QED  BY <1>1, <2>3 DEF found
<1> QED  BY <1>2, <1>3

\* _momentum: a return over closes of the series.
LEMMA MomentumIsInt ==
    ASSUME BarsInv, NEW day, NEW n \in Range(Universe)
    PROVE  Momentums(Answers(View(bars, statements, day)), n) \in Int
<1> DEFINE v == View(bars, statements, day)
           series == PriceSeries(v, n)
           closes == [i \in DOMAIN series |-> series[i].close]
           size == Len(closes)
           recent == closes[IF size > MomentumSkip THEN size - MomentumSkip ELSE size]
           back == size - MomentumBars - MomentumSkip + 1
           past == closes[Max({1, back})]
<1>1. n \in DOMAIN v.bars  BY DEF BarsInv, Names, View
<1>2. /\ DOMAIN series = 1..Len(series) /\ Len(series) \in Nat
      /\ \A i \in DOMAIN series : series[i].close \in Int
  BY SeriesIsInt DEF Names
<1> HIDE DEF v
<1>3. Answers(v).series[n] = series  BY <1>1 DEF Answers
<1> HIDE DEF series
<1>4. Column(Answers(v).series[n], "close") = closes  BY <1>3 DEF Column
<1>5. Momentums(Answers(v), n)
         = IF size = 0 \/ size < MomentumBars \div 2 THEN NA
           ELSE IF past <= 0 THEN NA ELSE Quot(100 * (recent - past), past)
  BY <1>4 DEF Momentums
<1>6. size \in Nat /\ \A i \in 1..size : closes[i] \in Int
  <2>1. closes \in [1..Len(series) -> Int]  BY <1>2
  <2>2. Len(series) \in Nat  BY <1>2
  <2> HIDE DEF closes
  <2>3. size = Len(series)  BY <2>1, <2>2
  <2> QED  BY <2>1, <2>2, <2>3
<1> HIDE DEF closes
<1>7. NA \in Int  BY DEF NA
<1>8. CASE size = 0  BY <1>5, <1>7, <1>8 DEF v
<1>9. CASE size # 0
  <2>1. recent \in Int  BY <1>6, <1>9, MomentumAssumption
  <2>2. Max({1, back}) \in 1..size
    <3>1. back \in Int /\ back <= size  BY <1>6, MomentumAssumption
    <3> HIDE DEF back
    <3>2. \A x \in {1, back} : (\A y \in {1, back} : x >= y) => x = IF back > 1 THEN back ELSE 1
      BY <3>1
    <3>3. \E x \in {1, back} : \A y \in {1, back} : x >= y  BY <3>1
    <3>4. Max({1, back}) = IF back > 1 THEN back ELSE 1  BY <3>2, <3>3 DEF Max
    <3> QED  BY <1>6, <1>9, <3>1, <3>4
  <2>3. past \in Int  BY <1>6, <2>2
  <2> HIDE DEF recent, past
  <2>4. past > 0 => Quot(100 * (recent - past), past) \in Int
    <3>1. \A k \in Int : past > 0 => k \div past \in Int  BY <2>3
    <3>2. 100 * (recent - past) \in Int  BY <2>1, <2>3
    <3> QED  BY <3>1, <3>2 DEF Quot
  <2> QED  BY <1>5, <1>7, <2>3, <2>4 DEF v
<1> QED  BY <1>6, <1>8, <1>9

\* So is what any of the strategies scores by.
LEMMA ScoresAreInts ==
    ASSUME BarsInv, NEW day, NEW strategy \in Tried, NEW n \in Range(Universe)
    PROVE  Scores(strategy.kind, Answers(View(bars, statements, day)), Universe)[n] \in Int
<1> DEFINE seen == Answers(View(bars, statements, day))
<1> HIDE DEF seen
<1>1. CASE strategy.kind = "fundamental_long"
  <2>1. Scores(strategy.kind, seen, Universe)[n] = FundamentalLong(seen, n)  BY <1>1 DEF Scores
  <2>2. FundamentalLong(seen, n) \in Int  BY StatementsScored DEF FundamentalLong, Statements
  <2> QED  BY <2>1, <2>2 DEF seen
<1>2. CASE strategy.kind = "momentum"
  <2>1. Scores(strategy.kind, seen, Universe)[n] = Momentums(seen, n)  BY <1>2 DEF Scores
  <2> QED  BY <2>1, MomentumIsInt DEF seen
<1>3. CASE strategy.kind = "technical_swing"
  <2> DEFINE result(t) == IF Trending(t, Len(seen.series[n])) THEN t.score.value ELSE NA
             read == Read(seen, n)
  <2>1. Scores(strategy.kind, seen, Universe)[n] = The({result(t) : t \in {read}})
    BY <1>3 DEF Scores, TechnicalSwing
  <2>2. result(read) \in Int  BY ReadScored DEF Read, NA
  <2> HIDE DEF result, read
  <2>3. {result(t) : t \in {read}} = {result(read)}  OBVIOUS
  <2> QED  BY <2>1, <2>2, <2>3, WorkedOut DEF seen
<1>4. CASE strategy.kind = "multi_factor"
  <2> DEFINE result(metrics) == [m \in Range(Universe) |-> ScoreQuant(metrics, m).value]
             metrics == Evaluated([m \in Range(Universe) |-> Exposures(seen, m)])
  <2>1. Scores(strategy.kind, seen, Universe) = The({result(m) : m \in {metrics}})
    BY <1>4 DEF Scores, MultiFactor
  <2>2. result(metrics)[n] \in Int  BY ScoreIsInt DEF ScoreQuant
  <2> HIDE DEF result, metrics
  <2>3. {result(m) : m \in {metrics}} = {result(metrics)}  OBVIOUS
  <2> QED  BY <2>1, <2>2, <2>3, WorkedOut DEF seen
<1>5. CASE strategy.kind = "buy_and_hold"
  <2>1. Scores(strategy.kind, seen, Universe)[n] = IF Known(seen.price[n]) THEN 1 ELSE NA
    BY <1>5 DEF Scores
  <2> QED  BY <2>1 DEF NA, seen
<1> QED  BY <1>1, <1>2, <1>3, <1>4, <1>5, HistoryAssumption

------------------------------------------------------------------------------
(* Rankings: names in an order, each once.                                  *)

Candidate == [name : Range(Universe), score : Int]
Ranked(s) == s \in Seq(Candidate) /\ \A i, j \in DOMAIN s : s[i].name = s[j].name => i = j

LEMMA RankingRanked ==
    ASSUME NEW score, \A n \in Range(Universe) : score[n] \in Int
    PROVE  Ranked(Ranking(Universe, score))
<1> DEFINE known == {i \in DOMAIN Universe : Known(score[Universe[i]])}
           points == [i \in known |-> score[Universe[i]]]
           order == Best(points)
           row(k) == [name |-> Universe[order[k]], score |-> score[Universe[order[k]]]]
           ranking == [k \in DOMAIN order |-> row(k)]
<1>1. DOMAIN Universe = 1..Len(Universe) /\ Len(Universe) \in Nat
      /\ \A i \in DOMAIN Universe : Universe[i] \in Range(Universe)
  BY HistoryAssumption DEF Range
<1>2. IsFiniteSet(known) /\ known \subseteq Int
  <2>1. IsFiniteSet(DOMAIN Universe)  BY <1>1, FS_Interval
  <2> QED  BY <1>1, <2>1, FS_Subset
<1>3. DOMAIN points = known /\ \A i \in DOMAIN points : points[i] \in Int  BY <1>1
<1> HIDE DEF points
<1>4. Lists(order, known)  BY <1>2, <1>3, BestLists
<1>5. Ranking(Universe, score) = ranking  BY DEF Ranking, points
<1> HIDE DEF order
<1>6. /\ DOMAIN order = 1..Cardinality(known) /\ Cardinality(known) \in Nat
      /\ \A k \in DOMAIN order : order[k] \in DOMAIN Universe
      /\ \A k, l \in DOMAIN order : order[k] = order[l] => k = l
  <2>1. known \subseteq DOMAIN Universe  OBVIOUS
  <2> HIDE DEF known
  <2>2. \A k \in DOMAIN order : order[k] \in known  BY <1>4 DEF Lists
  <2> QED  BY <1>4, <2>1, <2>2 DEF Lists
<1>7. \A k \in DOMAIN order : row(k) \in Candidate  BY <1>1, <1>6 DEF Candidate
<1>8. ranking \in [1..Cardinality(known) -> Candidate]  BY <1>6, <1>7
<1> HIDE DEF known
<1>9. ranking \in Seq(Candidate) /\ DOMAIN ranking = DOMAIN order  BY <1>6, <1>8, FunctionLists
<1>10. \A k \in DOMAIN order : ranking[k].name = Universe[order[k]]  OBVIOUS
<1> HIDE DEF ranking
<1>11. \A k, l \in DOMAIN ranking : ranking[k].name = ranking[l].name => k = l
  BY <1>6, <1>9, <1>10, HistoryAssumption DEF IsInjective
<1> QED  BY <1>5, <1>9, <1>11 DEF Ranked

\* Those that score enough.
ScoringEnough(s, least) == Keep(s, LAMBDA c : c.score >= least)

LEMMA KeepRanked ==
    ASSUME NEW s, Ranked(s), NEW least
    PROVE  Ranked(ScoringEnough(s, least))
<1> DEFINE I == {i \in DOMAIN s : s[i].score >= least}
           r == [k \in DOMAIN Places(I) |-> s[Places(I)[k]]]
<1>1. ScoringEnough(s, least) = r  BY DEF ScoringEnough, Keep, Places
<1>2. I \subseteq DOMAIN s /\ s \in Seq(Candidate)  BY DEF Ranked
<1>3. r = [k \in DOMAIN Places(I) |-> s[Places(I)[k]]]  OBVIOUS
<1> HIDE DEF I, r
<1>4. /\ Lists(Places(I), I) /\ r \in Seq(Candidate) /\ DOMAIN r = DOMAIN Places(I)
      /\ \A k \in DOMAIN r : Places(I)[k] \in I /\ r[k] = s[Places(I)[k]]
  BY <1>2, <1>3, KeptLists
<1>5. \A k, l \in DOMAIN r : r[k].name = r[l].name => k = l
  BY <1>2, <1>4 DEF Ranked, Lists
<1> QED  BY <1>1, <1>4, <1>5 DEF Ranked

\* The best of them.
LEMMA FirstRanked ==
    ASSUME NEW s, Ranked(s), NEW m \in Nat, m <= Len(s)
    PROVE  Ranked(SubSeq(s, 1, m))
<1> DEFINE r == SubSeq(s, 1, m)
<1>1. s \in Seq(Candidate) /\ Len(s) \in Nat /\ DOMAIN s = 1..Len(s)  BY DEF Ranked
<1>2. r \in Seq(Candidate) /\ DOMAIN r = 1..m /\ \A i \in 1..m : r[i] = s[i]  BY <1>1
<1>3. 1..m \subseteq DOMAIN s  BY <1>1
<1> HIDE DEF r
<1>4. \A i, j \in DOMAIN r : r[i].name = r[j].name => i = j  BY <1>2, <1>3 DEF Ranked
<1> QED  BY <1>2, <1>4 DEF Ranked, r

------------------------------------------------------------------------------
(* Weights.                                                                 *)

\* A part of r in proportion to a out of t, rounded down.
LEMMA Portion ==
    ASSUME NEW a \in Nat, NEW r \in Nat, NEW t \in Nat \ {0}
    PROVE  LET q == (a * r) \div t
           IN  /\ q \in Nat /\ t * q <= a * r
               /\ a <= t => q <= r
               /\ a >= t => q >= r
<1> DEFINE q == (a * r) \div t
           p == a * r
<1>1. p \in Nat  OBVIOUS
<1>2. q \in Int /\ t * q <= p /\ p < t * (q + 1)
  <2> HIDE DEF p
  <2>1. \A d \in Nat \ {0}, k \in Nat : /\ k \div d \in Int
                                       /\ d * (k \div d) <= k /\ k < d * ((k \div d) + 1)
    OBVIOUS
  <2>2. q = p \div t  BY DEF p
  <2> QED  BY <1>1, <2>1, <2>2
<1> HIDE DEF q
<1>3. q >= 0
  <2> SUFFICES ASSUME q <= -1 PROVE FALSE  BY <1>2
  <2>1. t * (q + 1) <= 0
    <3>1. \A x, y \in Int : x > 0 /\ y <= 0 => x * y <= 0  OBVIOUS
    <3> QED  BY <1>2, <3>1
  <2>2. t * (q + 1) \in Int  BY <1>2
  <2> QED  BY <1>1, <1>2, <2>1, <2>2
<1>4. ASSUME a <= t PROVE q <= r
  <2> SUFFICES ASSUME q >= r + 1 PROVE FALSE  BY <1>2
  <2>1. a * r <= t * r
    <3>1. \A x, y, z \in Nat : x <= y => x * z <= y * z  OBVIOUS
    <3> QED  BY <1>4, <3>1
  <2>2. t * (r + 1) <= t * q
    <3>1. \A x, y, z \in Nat : x <= y => z * x <= z * y  OBVIOUS
    <3> QED  BY <1>2, <1>3, <3>1
  <2>3. t * (r + 1) = t * r + t  OBVIOUS
  <2>4. t * r \in Nat /\ t * q \in Int  BY <1>2
  <2> QED  BY <1>1, <1>2, <2>1, <2>2, <2>3, <2>4
<1>5. ASSUME a >= t PROVE q >= r
  <2> SUFFICES ASSUME q + 1 <= r PROVE FALSE  BY <1>2
  <2>1. t * r <= a * r
    <3>1. \A x, y, z \in Nat : x <= y => x * z <= y * z  OBVIOUS
    <3> QED  BY <1>5, <3>1
  <2>2. t * (q + 1) <= t * r
    <3>1. \A x, y, z \in Nat : x <= y => z * x <= z * y  OBVIOUS
    <3> QED  BY <1>2, <1>3, <3>1
  <2>3. t * r \in Nat /\ t * (q + 1) \in Int  BY <1>2
  <2> QED  BY <1>1, <1>2, <2>1, <2>2, <2>3
<1> QED  BY <1>2, <1>3, <1>4, <1>5 DEF q

\* Shares of k in proportion to f add up to no more than k.
LEMMA SharesWithin ==
    ASSUME NEW S, IsFiniteSet(S), NEW k \in Nat, NEW f, \A x \in S : f[x] \in Nat,
           NEW t, t = SumOver(f, S), t \in Nat \ {0},
           NEW h, \A x \in S : h[x] = (k * f[x]) \div t
    PROVE  /\ \A x \in S : h[x] \in Nat
           /\ SumOver(h, S) \in Int /\ SumOver(h, S) <= k
<1> DEFINE low == [x \in S |-> t * h[x]]
           high == [x \in S |-> k * f[x]]
<1>1. \A x \in S : h[x] \in Nat /\ t * h[x] <= k * f[x]  BY Portion
<1>2. Sells!IsFiniteSet(S)  BY SumsSame
<1>3. \A x \in S : h[x] \in Int /\ f[x] \in Int  BY <1>1
<1>4. SumOver(h, S) \in Int  BY <1>2, <1>3, Sells!SumInt DEF SumOver
<1>5. \A x \in S : low[x] = t * h[x] /\ high[x] = k * f[x] /\ low[x] \in Int /\ high[x] \in Int
                      /\ low[x] <= high[x]
  BY <1>1, <1>3
<1> HIDE DEF low, high
<1>6. SumOver(low, S) = t * SumOver(h, S)  BY <1>2, <1>3, <1>5, Sells!SumScaled DEF SumOver
<1>7. SumOver(high, S) = k * t  BY <1>2, <1>3, <1>5, Sells!SumScaled DEF SumOver
<1>8. SumOver(low, S) <= SumOver(high, S)  BY <1>2, <1>5, Sells!SumMonotone DEF SumOver
<1> DEFINE s == SumOver(h, S)
<1>9. t * s <= k * t  BY <1>6, <1>7, <1>8
<1>10. s \in Int  BY <1>4
<1> HIDE DEF s
<1>11. s <= k
  <2> SUFFICES ASSUME s >= k + 1 PROVE FALSE  BY <1>10
  <2>1. \A x, y, z \in Int : z > 0 /\ x <= y => z * x <= z * y  OBVIOUS
  <2>2. t * (k + 1) <= t * s  BY <1>10, <2>1
  <2>3. t * (k + 1) = k * t + t  OBVIOUS
  <2>4. PICK u \in Int : u = t * s  BY <1>10
  <2>5. PICK v \in Int : v = k * t  OBVIOUS
  <2>6. u <= v /\ v + t <= u  BY <1>9, <2>2, <2>3, <2>4, <2>5
  <2> QED  BY <2>4, <2>5, <2>6
<1> QED  BY <1>1, <1>4, <1>11 DEF s

\* A sum of nothing but zeros.
LEMMA ZerosAdd ==
    ASSUME NEW S, IsFiniteSet(S), NEW f, \A x \in S : f[x] = 0
    PROVE  SumOver(f, S) = 0
<1>1. Sells!IsFiniteSet(S)  BY SumsSame
<1>2. \A x \in S : f[x] \in Int /\ f[x] = 0 * f[x]  OBVIOUS
<1>3. SumOver(f, S) = 0 * SumOver(f, S)  BY <1>1, <1>2, Sells!SumScaled DEF SumOver
<1>4. SumOver(f, S) \in Int  BY <1>1, <1>2, Sells!SumInt DEF SumOver
<1> QED  BY <1>3, <1>4

\* _apply_weight_cap: one round.  The weights add up to no more than they did.
\* Afterwards none is over the cap, or none is under it; once that is so, none
\* is over it.
AllUnder(w, N, cap) == \A n \in N : w[n] <= cap
AllOver(w, N, cap) == \A n \in N : w[n] >= cap

LEMMA Spreading ==
    ASSUME NEW N, IsFiniteSet(N), NEW w \in [N -> Nat], NEW cap \in Nat,
           NEW v, v = Redistribute(w, cap)
    PROVE  /\ v \in [N -> Nat]
           /\ SumOver(w, N) \in Int /\ SumOver(v, N) <= SumOver(w, N)
           /\ AllUnder(v, N, cap) \/ AllOver(v, N, cap)
           /\ AllUnder(w, N, cap) \/ AllOver(w, N, cap) => AllUnder(v, N, cap)
<1> DEFINE capped == [n \in N |-> Min({w[n], cap})]
           room == [n \in N |-> cap - capped[n]]
           excess == SumOver(w, N) - SumOver(capped, N)
           available == SumOver(room, N)
           part == [n \in N |-> (excess * room[n]) \div available]
           spread == [n \in N |-> capped[n] + part[n]]
<1>1. Sells!IsFiniteSet(N) /\ DOMAIN w = N  BY SumsSame
<1>2. v = IF excess = 0 \/ available = 0 THEN capped ELSE spread
  <2>1. /\ SumFunction(w) = SumOver(w, N)
        /\ SumFunction(capped) = SumOver(capped, N)
        /\ SumFunction(room) = SumOver(room, N)
    BY <1>1, SumsSame
  <2>2. Capped(w, cap) = capped  BY <1>1 DEF Capped
  <2> HIDE DEF capped
  <2>3. [n \in DOMAIN w |-> cap - capped[n]] = room  BY <1>1
  <2> HIDE DEF room
  <2>4. [n \in DOMAIN w |-> capped[n] + (excess * room[n]) \div available] = spread
    BY <1>1
  <2> QED  BY <2>1, <2>2, <2>3, <2>4 DEF Redistribute
<1>3. \A n \in N : /\ w[n] \in Nat /\ capped[n] \in Nat /\ room[n] \in Nat
                   /\ room[n] = cap - capped[n]
                   /\ capped[n] = IF w[n] <= cap THEN w[n] ELSE cap
  BY MinOfTwo
<1>4. DOMAIN capped = N /\ capped = [n \in N |-> capped[n]]  OBVIOUS
<1> HIDE DEF capped, room
<1>5. /\ SumOver(w, N) \in Int /\ SumOver(capped, N) \in Int /\ SumOver(room, N) \in Int
  <2>1. \A n \in N : w[n] \in Int /\ capped[n] \in Int /\ room[n] \in Int  BY <1>3
  <2> QED  BY <1>1, <2>1, Sells!SumInt DEF SumOver
<1>6. SumOver(capped, N) <= SumOver(w, N)
  <2>1. \A n \in N : w[n] \in Int /\ capped[n] \in Int /\ capped[n] <= w[n]  BY <1>3
  <2> QED  BY <1>1, <2>1, Sells!SumMonotone DEF SumOver
<1>7. available \in Nat
  <2> DEFINE zero == [n \in N |-> 0]
  <2>1. SumOver(zero, N) = 0
    <3>1. \A n \in N : zero[n] = 0  OBVIOUS
    <3> HIDE DEF zero
    <3> QED  BY <3>1, ZerosAdd
  <2>2. \A n \in N : zero[n] \in Int /\ room[n] \in Int /\ zero[n] <= room[n]  BY <1>3
  <2> HIDE DEF zero
  <2>3. SumOver(zero, N) <= SumOver(room, N)  BY <1>1, <2>2, Sells!SumMonotone DEF SumOver
  <2> QED  BY <1>5, <2>1, <2>3
<1>8. excess \in Nat  BY <1>5, <1>6
<1>9. capped \in [N -> Nat] /\ AllUnder(capped, N, cap)  BY <1>3, <1>4 DEF AllUnder
<1>10. CASE excess = 0 \/ available = 0
  <2>1. v = capped  BY <1>2, <1>10
  <2> HIDE DEF excess, available
  <2> QED  BY <1>5, <1>6, <1>9, <2>1
<1>11. CASE ~ (excess = 0 \/ available = 0)
  <2>1. v = spread  BY <1>2, <1>11
  <2>2. available \in Nat \ {0} /\ excess \in Nat \ {0}  BY <1>7, <1>8, <1>11
  <2>3. \A n \in N : part[n] = (excess * room[n]) \div available  OBVIOUS
  <2>4. available = SumOver(room, N)  OBVIOUS
  <2>5. excess = SumOver(w, N) - SumOver(capped, N)  OBVIOUS
  <2> HIDE DEF part, available, excess
  <2>6. /\ \A n \in N : part[n] \in Nat
        /\ SumOver(part, N) \in Int /\ SumOver(part, N) <= excess
    <3>1. \A n \in N : room[n] \in Nat  BY <1>3
    <3> QED  BY <2>2, <2>3, <2>4, <3>1, SharesWithin
  <2>7. v = [n \in N |-> capped[n] + part[n]]  BY <2>1
  <2> HIDE DEF spread
  <2>8. v \in [N -> Nat]  BY <1>3, <2>6, <2>7
  <2>9. \A n \in N : v[n] = capped[n] + part[n] /\ v[n] \in Int  BY <1>3, <2>6, <2>7
  <2>10. SumOver(v, N) <= SumOver(w, N)
    <3>1. \A n \in N : v[n] \in Int /\ part[n] \in Int /\ capped[n] = v[n] - part[n]
      BY <1>3, <2>6, <2>9
    <3>2. SumOver(capped, N) = SumOver(v, N) - SumOver(part, N)
      BY <1>1, <3>1, Sells!SumDiffers DEF SumOver
    <3>3. SumOver(v, N) \in Int  BY <1>1, <3>1, Sells!SumInt DEF SumOver
    <3> QED  BY <1>5, <2>5, <2>6, <3>2, <3>3
  <2>11. AllUnder(v, N, cap) \/ AllOver(v, N, cap)
    <3>1. \A n \in N : (excess <= available => part[n] <= room[n])
                      /\ (excess >= available => part[n] >= room[n])
      <4> SUFFICES ASSUME NEW n \in N
                   PROVE  /\ excess <= available => part[n] <= room[n]
                          /\ excess >= available => part[n] >= room[n]
        OBVIOUS
      <4>1. room[n] \in Nat /\ excess \in Nat  BY <1>3, <2>2
      <4>2. part[n] = (excess * room[n]) \div available  BY <2>3
      <4> QED  BY <2>2, <4>1, <4>2, Portion
    <3>2. CASE excess <= available
      <4>1. \A n \in N : v[n] <= cap  BY <1>3, <2>6, <2>9, <3>1, <3>2
      <4> QED  BY <4>1 DEF AllUnder
    <3>3. CASE excess >= available
      <4>1. \A n \in N : v[n] >= cap  BY <1>3, <2>6, <2>9, <3>1, <3>3
      <4> QED  BY <4>1 DEF AllOver
    <3> QED  BY <2>2, <3>2, <3>3
  <2>12. ~ AllUnder(w, N, cap)
    <3> SUFFICES ASSUME AllUnder(w, N, cap) PROVE FALSE  OBVIOUS
    <3>1. \A n \in N : capped[n] = w[n]  BY <1>3 DEF AllUnder
    <3>2. SumOver(capped, N) = SumOver(w, N)  BY <1>1, <3>1, Sells!SumEqual DEF SumOver
    <3> QED  BY <1>5, <2>2, <2>5, <3>2
  <2>13. ~ AllOver(w, N, cap)
    <3> SUFFICES ASSUME AllOver(w, N, cap) PROVE FALSE  OBVIOUS
    <3>1. \A n \in N : room[n] = 0  BY <1>3 DEF AllOver
    <3>2. SumOver(room, N) = 0  BY <3>1, ZerosAdd
    <3> QED  BY <2>2, <2>4, <3>2
  <2> QED  BY <1>5, <2>8, <2>10, <2>11, <2>12, <2>13
<1> QED  BY <1>10, <1>11

\* A function has finitely many values on a finite set.
LEMMA FiniteImage ==
    ASSUME NEW S, IsFiniteSet(S), NEW f
    PROVE  IsFiniteSet({f[x] : x \in S})
<1> DEFINE T == {f[x] : x \in S}
           g == [x \in S |-> f[x]]
<1>1. g \in Surjection(S, T)
  <2>1. g \in [S -> T] /\ \A t \in T : \E x \in S : g[x] = t  OBVIOUS
  <2> QED  BY <2>1 DEF Surjection
<1> HIDE DEF g, T
<1>2. IsFiniteSet(T)  BY <1>1, FS_Surjection
<1> QED  BY <1>2 DEF T

\* Of finitely many numbers one is the least.
LEMMA MinOfFinite ==
    ASSUME NEW S, IsFiniteSet(S), S \subseteq Int, S # {}
    PROVE  Min(S) \in S /\ \A y \in S : Min(S) <= y
<1> DEFINE R == {p \in S \X S : p[1] < p[2]}
<1>1. \A x, y \in S : <<x, y>> \in R <=> x < y  OBVIOUS
<1>2. IsOrder(S, R)
  <2> HIDE DEF R
  <2> QED  BY <1>1 DEF IsOrder
<1>3. Cardinality(S) \in Nat /\ Cardinality(S) # 0  BY FS_CardinalityType, FS_EmptySet
<1>4. PICK x \in S : Rank(S, R, x) = 0
  <2>1. 1 \in 1..Cardinality(S) /\ 1 - 1 = 0  BY <1>3
  <2> QED  BY <1>2, <2>1, RanksFill
<1>5. {y \in S : <<y, x>> \in R} = {}
  <2> DEFINE T == {y \in S : <<y, x>> \in R}
  <2>1. T \in SUBSET S /\ Cardinality(T) = 0  BY <1>4 DEF Rank
  <2> HIDE DEF T
  <2>2. T = {}  BY <2>1, FS_Subset, FS_EmptySet
  <2> QED  BY <2>2 DEF T
<1>6. \A y \in S : x <= y
  <2> SUFFICES ASSUME NEW y \in S PROVE x <= y  OBVIOUS
  <2>1. ~ (y < x)  BY <1>1, <1>5
  <2> QED  BY <2>1
<1> QED  BY <1>6 DEF Min

\* Shares of the invested part, by points: no more than it.
LEMMA RawWithin ==
    ASSUME NEW strategy \in Tried, NEW selected, Ranked(selected), selected # <<>>
    PROVE  LET N == {c.name : c \in Range(selected)}
               w == RawShares(strategy, selected)
           IN  /\ IsFiniteSet(N) /\ w \in [N -> Nat]
               /\ SumOver(w, N) <= strategy.invested
<1> DEFINE N == {c.name : c \in Range(selected)}
           S == DOMAIN selected
           lowest == Min({c.score : c \in Range(selected)})
           points == [i \in S |->
                        IF strategy.score_weighted THEN selected[i].score - lowest + 1 ELSE 1]
           place(n) == CHOOSE i \in S : selected[i].name = n
           total == SumFunction(points)
           w == [n \in N |-> (points[place(n)] * strategy.invested) \div total]
           share == [i \in S |-> (strategy.invested * points[i]) \div total]
           name == [i \in S |-> selected[i].name]
           score == [i \in S |-> selected[i].score]
<1>1. RawShares(strategy, selected) = w  BY DEF RawShares
<1>2. /\ S = 1..Len(selected) /\ Len(selected) \in Nat \ {0}
      /\ \A i \in S : selected[i] \in Candidate
  BY DEF Ranked
<1>3. IsFiniteSet(S) /\ Sells!IsFiniteSet(S)
  <2>1. IsFiniteSet(S)  BY <1>2, FS_Interval
  <2> QED  BY <2>1, SumsSame
<1>4. /\ Range(selected) = {selected[i] : i \in S}
      /\ N = {name[i] : i \in S}
  BY DEF Range
<1>5. \A i \in S : selected[i].score \in Int /\ lowest <= selected[i].score /\ lowest \in Int
  <2> DEFINE scores == {selected[i].score : i \in S}
  <2>1. \A i \in S : selected[i].score \in Int  BY <1>2 DEF Candidate
  <2>2. lowest = Min(scores)
    <3>1. {c.score : c \in Range(selected)} = scores  BY <1>4
    <3> QED  BY <3>1
  <2>3. IsFiniteSet(scores) /\ scores \subseteq Int /\ scores # {}
    <3>1. IsFiniteSet({score[i] : i \in S})  BY <1>3, FiniteImage
    <3>2. {score[i] : i \in S} = scores  OBVIOUS
    <3>3. scores \subseteq Int  BY <2>1
    <3>4. 1 \in S  BY <1>2
    <3>5. scores # {}  BY <3>4
    <3> QED  BY <3>1, <3>2, <3>3, <3>5
  <2> HIDE DEF scores
  <2>4. lowest \in scores /\ \A y \in scores : lowest <= y  BY <2>2, <2>3, MinOfFinite
  <2> QED  BY <2>1, <2>3, <2>4 DEF scores
<1> HIDE DEF lowest
<1>6. \A i \in S : points[i] \in Nat \ {0}  BY <1>5
<1>7. total = SumOver(points, S)
  <2>1. DOMAIN points = S  OBVIOUS
  <2> HIDE DEF points
  <2> QED  BY <2>1, SumsSame
<1> HIDE DEF points, total
<1>8. total \in Nat \ {0}
  <2>1. \A i \in S : points[i] \in Int /\ points[i] \in Nat  BY <1>6
  <2>2. 1 \in S /\ {1} \subseteq S  BY <1>2
  <2>3. SumOver(points, {1}) <= SumOver(points, S)  BY <1>3, <2>1, <2>2, Sells!SumPart DEF SumOver
  <2>4. SumOver(points, {1}) = points[1]
    <3>1. Sells!IsFiniteSet({1})  BY FS_Singleton, SumsSame
    <3>2. SumOver(points, {1}) = points[1] + SumOver(points, {1} \ {1})
      BY <2>1, <2>2, <3>1, Sells!SumSplits DEF SumOver
    <3>3. {1} \ {1} = {}  OBVIOUS
    <3>4. SumOver(points, {}) = 0  BY Sells!SumEmpty DEF SumOver
    <3>5. SumOver(points, {1} \ {1}) = 0  BY <3>3, <3>4
    <3>6. points[1] \in Int  BY <2>1, <2>2
    <3> HIDE DEF SumOver
    <3> QED  BY <3>2, <3>5, <3>6
  <2>5. SumOver(points, S) \in Int  BY <1>3, <2>1, Sells!SumInt DEF SumOver
  <2> QED  BY <1>6, <1>7, <2>2, <2>3, <2>4, <2>5
<1>9. strategy.invested \in Nat  BY HistoryAssumption
<1>10. /\ \A i \in S : share[i] \in Nat
       /\ SumOver(share, S) \in Int /\ SumOver(share, S) <= strategy.invested
  <2>1. \A i \in S : share[i] = (strategy.invested * points[i]) \div total  OBVIOUS
  <2>2. \A i \in S : points[i] \in Nat  BY <1>6
  <2> HIDE DEF share
  <2> QED  BY <1>3, <1>7, <1>8, <1>9, <2>1, <2>2, SharesWithin
<1>11. \A i \in S : name[i] \in N /\ place(name[i]) = i
  <2> SUFFICES ASSUME NEW i \in S PROVE name[i] \in N /\ place(name[i]) = i  OBVIOUS
  <2>1. \A j \in S : selected[j].name = name[i] => j = i  BY DEF Ranked
  <2>2. \E j \in S : selected[j].name = name[i]  OBVIOUS
  <2> QED  BY <1>4, <2>1, <2>2
<1>12. DOMAIN w = N /\ w = [n \in N |-> w[n]]  OBVIOUS
<1>13. \A i \in S : w[name[i]] = share[i]
  <2> SUFFICES ASSUME NEW i \in S PROVE w[name[i]] = share[i]  OBVIOUS
  <2>1. w[name[i]] = (points[i] * strategy.invested) \div total  BY <1>11
  <2>2. points[i] * strategy.invested = strategy.invested * points[i]  BY <1>6, <1>9
  <2> QED  BY <2>1, <2>2
<1> HIDE DEF share, w
<1>14. \A n \in N : w[n] \in Nat
  <2>1. \A n \in N : \E i \in S : n = name[i]  BY <1>4
  <2> QED  BY <1>10, <1>13, <2>1
<1>15. IsFiniteSet(N) /\ SumOver(share, S) = SumOver(w, N)
  <2>1. \A i, j \in S : name[i] = name[j] => i = j
    <3> HIDE DEF place, name
    <3> QED  BY <1>11
  <2>2. \A i \in S : w[name[i]] \in Int /\ share[i] = w[name[i]]  BY <1>10, <1>13
  <2>3. N = {name[i] : i \in S}  BY <1>4
  <2> HIDE DEF N, S, name
  <2>4. Sells!IsFiniteSet(N) /\ SumOver(share, S) = SumOver(w, N)
    BY <1>3, <2>1, <2>2, <2>3, Sells!SumRenamed DEF SumOver
  <2> QED  BY <2>4, SumsSame
<1>16. w \in [N -> Nat]  BY <1>12, <1>14
<1> QED  BY <1>1, <1>10, <1>15, <1>16

\* The rounds, folded.
SpreadOut(cap, w, rounds) == FoldLeft(LAMBDA v, round : Evaluated(Redistribute(v, cap)), w, rounds)

LEMMA SpreadOutIs ==
    ASSUME NEW cap, NEW w, NEW rounds
    PROVE  SpreadOut(cap, w, rounds) = Spreads!Folded(cap, w, rounds)
  BY DEF SpreadOut, Spreads!Folded, FoldLeft, MapThenFoldSet, Max,
         Spreads!FoldLeft, Spreads!MapThenFoldSet, Spreads!Max

\* After the rounds no weight is over the cap.
LEMMA RoundsCap ==
    ASSUME NEW N, IsFiniteSet(N), NEW w \in [N -> Nat], NEW cap \in Nat, NEW k \in Int,
           SumOver(w, N) <= k, NEW v, v = SpreadOut(cap, w, [i \in 1..Rounds |-> i])
    PROVE  /\ v \in [N -> Nat]
           /\ SumOver(v, N) \in Int /\ SumOver(v, N) <= k
           /\ AllUnder(v, N, cap)
<1> DEFINE V == {u \in [N -> Nat] : SumOver(u, N) <= k}
           eight == [i \in 1..8 |-> i]
           nine == Append(eight, 9)
           ten == Append(nine, 10)
           u8 == Spreads!Folded(cap, w, eight)
           u9 == Spreads!Folded(cap, w, nine)
           u10 == Spreads!Folded(cap, w, ten)
<1>1. eight \in Seq(Nat) /\ nine \in Seq(Nat) /\ ten \in Seq(Nat)  OBVIOUS
<1>2. [i \in 1..Rounds |-> i] = ten  BY DEF Rounds
<1> HIDE DEF eight, nine, ten
<1>3. ASSUME NEW u \in V PROVE Redistribute(u, cap) \in V
  <2> DEFINE r == Redistribute(u, cap)
  <2>1. u \in [N -> Nat] /\ SumOver(u, N) <= k  OBVIOUS
  <2>2. r = Redistribute(u, cap)  OBVIOUS
  <2> HIDE DEF r
  <2>3. r \in [N -> Nat] /\ SumOver(u, N) \in Int /\ SumOver(r, N) <= SumOver(u, N)
    BY <2>1, <2>2, Spreading
  <2>4. SumOver(r, N) \in Int
    <3>1. \A n \in N : r[n] \in Int  BY <2>3
    <3>2. Sells!IsFiniteSet(N)  BY SumsSame
    <3> QED  BY <3>1, <3>2, Sells!SumInt DEF SumOver
  <2> HIDE DEF SumOver
  <2> QED  BY <2>1, <2>3, <2>4 DEF r
<1>4. w \in V  OBVIOUS
<1> HIDE DEF V
<1>5. \A u \in V, round \in Nat : Evaluated(Redistribute(u, cap)) \in V  BY <1>3, WorkedOut
<1>6. u8 \in V  BY <1>1, <1>4, <1>5, Spreads!FoldedKeeps
<1>7. u9 = Redistribute(u8, cap)  BY <1>1, Spreads!FoldedAppend, WorkedOut DEF nine
<1>8. u10 = Redistribute(u9, cap)  BY <1>1, Spreads!FoldedAppend, WorkedOut DEF ten
<1>9. v = u10  BY <1>2, SpreadOutIs
<1> HIDE DEF u8, u9, u10
<1>10. u9 \in V /\ u10 \in V  BY <1>3, <1>6, <1>7, <1>8
<1>11. AllUnder(u9, N, cap) \/ AllOver(u9, N, cap)
  <2>1. u8 \in [N -> Nat]  BY <1>6 DEF V
  <2> QED  BY <1>7, <2>1, Spreading
<1>12. AllUnder(u10, N, cap) /\ SumOver(u9, N) \in Int
  <2>1. u9 \in [N -> Nat]  BY <1>10 DEF V
  <2> QED  BY <1>8, <1>11, <2>1, Spreading
<1>13. u10 \in [N -> Nat] /\ SumOver(u10, N) <= k  BY <1>10 DEF V
<1>14. SumOver(u10, N) \in Int
  <2>1. \A n \in N : u10[n] \in Int  BY <1>13
  <2>2. Sells!IsFiniteSet(N)  BY SumsSame
  <2> QED  BY <2>1, <2>2, Sells!SumInt DEF SumOver
<1> QED  BY <1>9, <1>12, <1>13, <1>14

\* Target weights: names, none over the cap, all of them no more than is invested.
Target == [name : Range(Universe), weight : Nat]
CappedTargets(strategy, t) ==
    /\ t \in Seq(Target)
    /\ \A i \in DOMAIN t : t[i].weight <= strategy.max_weight
    /\ SumFunction([i \in DOMAIN t |-> t[i].weight]) <= strategy.invested

LEMMA NoTargets ==
    ASSUME NEW strategy \in Tried
    PROVE  CappedTargets(strategy, <<>>)
<1> DEFINE f == [i \in DOMAIN <<>> |-> <<>>[i].weight]
<1>1. strategy.invested \in Nat  BY HistoryAssumption
<1>2. DOMAIN f = {}  OBVIOUS
<1> HIDE DEF f
<1>3. SumFunction(f) = 0  BY <1>2, SumsSame, Sells!SumEmpty DEF SumOver
<1>4. <<>> \in Seq(Target) /\ DOMAIN <<>> = {}  OBVIOUS
<1> QED  BY <1>1, <1>3, <1>4 DEF CappedTargets, f

\* Those with a weight.
Positive(t) == Keep(t, LAMBDA e : e.weight > 0)

\* target_weights: what is selected is weighted within the cap.
LEMMA WeightedCapped ==
    ASSUME NEW strategy \in Tried, NEW selected, Ranked(selected)
    PROVE  CappedTargets(strategy, Weighted(strategy, selected))
<1>1. CASE selected = <<>>
  <2>1. Weighted(strategy, selected) = <<>>  BY <1>1 DEF Weighted
  <2> QED  BY <2>1, NoTargets
<1>2. CASE selected # <<>>
  <2> DEFINE N == {c.name : c \in Range(selected)}
             raw == RawShares(strategy, selected)
             cap == strategy.max_weight
             final == SpreadOut(cap, raw, [i \in 1..Rounds |-> i])
             weights == [i \in DOMAIN selected |->
                           [name |-> selected[i].name, weight |-> final[selected[i].name]]]
             I == {i \in DOMAIN weights : weights[i].weight > 0}
             r == [k \in DOMAIN Places(I) |-> weights[Places(I)[k]]]
  <2>1. /\ selected \in Seq(Candidate) /\ DOMAIN selected = 1..Len(selected)
        /\ Len(selected) \in Nat
        /\ \A i \in DOMAIN selected : selected[i] \in Candidate
    BY DEF Ranked
  <2>2. cap \in Nat /\ strategy.invested \in Int  BY HistoryAssumption
  <2>3. IsFiniteSet(N) /\ raw \in [N -> Nat] /\ SumOver(raw, N) <= strategy.invested
    BY <1>2, RawWithin
  <2>4. /\ final \in [N -> Nat] /\ AllUnder(final, N, cap)
        /\ SumOver(final, N) \in Int /\ SumOver(final, N) <= strategy.invested
    <3> HIDE DEF N, raw, cap
    <3> QED  BY <2>2, <2>3, RoundsCap
  <2>5. Weighted(strategy, selected) = r
    <3> DEFINE worked == SpreadOut(cap, Evaluated(raw), [i \in 1..Rounds |-> i])
               list(w) == [i \in DOMAIN selected |->
                              [name |-> selected[i].name, weight |-> w[selected[i].name]]]
    <3>1. Weighted(strategy, selected) = Positive(list(worked))
      BY <1>2 DEF Weighted, SpreadOut, Positive
    <3>2. worked = final  BY WorkedOut
    <3>3. weights = list(final)  OBVIOUS
    <3>4. Positive(weights) = r  BY DEF Positive, Keep, Places
    <3> HIDE DEF worked, final, weights, list, r
    <3> QED  BY <3>1, <3>2, <3>3, <3>4
  <2> HIDE DEF final
  <2>6. \A i \in DOMAIN selected : selected[i].name \in N /\ selected[i].name \in Range(Universe)
    BY <2>1 DEF Candidate, Range
  <2>7. \A i \in DOMAIN selected : weights[i] \in Target  BY <2>4, <2>6 DEF Target
  <2>8. weights \in Seq(Target) /\ DOMAIN weights = DOMAIN selected
    <3>1. weights \in [1..Len(selected) -> Target]  BY <2>1, <2>7
    <3> HIDE DEF weights
    <3> QED  BY <2>1, <3>1, FunctionLists
  <2>9. \A i \in DOMAIN selected : /\ weights[i].name = selected[i].name
                                 /\ weights[i].weight = final[selected[i].name]
    OBVIOUS
  <2>10. I \subseteq DOMAIN weights /\ r = [k \in DOMAIN Places(I) |-> weights[Places(I)[k]]]
    OBVIOUS
  <2> HIDE DEF weights, I, r
  <2>11. /\ IsFiniteSet(I) /\ Lists(Places(I), I)
         /\ r \in Seq(Target) /\ DOMAIN r = DOMAIN Places(I)
         /\ \A k \in DOMAIN r : Places(I)[k] \in I /\ r[k] = weights[Places(I)[k]]
    BY <2>8, <2>10, KeptLists
  <2> DEFINE name == [k \in DOMAIN r |-> selected[Places(I)[k]].name]
             f == [k \in DOMAIN r |-> r[k].weight]
             M == {name[k] : k \in DOMAIN r}
  <2>12. \A k \in DOMAIN r : /\ Places(I)[k] \in DOMAIN selected
                            /\ name[k] \in N /\ f[k] = final[name[k]] /\ f[k] = r[k].weight
    BY <2>6, <2>8, <2>9, <2>10, <2>11
  <2>13. \A k, l \in DOMAIN r : name[k] = name[l] => k = l
    <3> SUFFICES ASSUME NEW k \in DOMAIN r, NEW l \in DOMAIN r, name[k] = name[l] PROVE k = l
      OBVIOUS
    <3>1. Places(I)[k] = Places(I)[l]  BY <2>12 DEF Ranked
    <3> QED  BY <2>11, <3>1 DEF Lists
  <2>14. DOMAIN f = DOMAIN r  OBVIOUS
  <2>15. IsFiniteSet(DOMAIN r)
    <3>1. DOMAIN r = 1..Cardinality(I) /\ Cardinality(I) \in Nat  BY <2>11 DEF Lists
    <3> QED  BY <3>1, FS_Interval
  <2> HIDE DEF name, f
  <2>16. SumOver(f, DOMAIN r) = SumOver(final, M)
    <3>1. Sells!IsFiniteSet(DOMAIN r)  BY <2>15, SumsSame
    <3>2. \A k \in DOMAIN r : final[name[k]] \in Int /\ f[k] = final[name[k]]  BY <2>4, <2>12
    <3> QED  BY <2>13, <3>1, <3>2, Sells!SumRenamed DEF SumOver
  <2>17. SumOver(final, M) <= SumOver(final, N)
    <3>1. M \subseteq N  BY <2>12
    <3>2. Sells!IsFiniteSet(N)  BY <2>3, SumsSame
    <3>3. \A n \in N : final[n] \in Nat  BY <2>4
    <3> HIDE DEF M, N
    <3> QED  BY <3>1, <3>2, <3>3, Sells!SumPart DEF SumOver
  <2>18. SumOver(final, M) \in Int
    <3>1. M \in SUBSET N  BY <2>12
    <3> HIDE DEF M, N
    <3>2. IsFiniteSet(M)  BY <2>3, <3>1, FS_Subset
    <3>3. \A n \in M : final[n] \in Int  BY <2>4, <3>1
    <3>4. Sells!IsFiniteSet(M)  BY <3>2, SumsSame
    <3> QED  BY <3>3, <3>4, Sells!SumInt DEF SumOver
  <2>19. SumFunction(f) <= strategy.invested
    <3>1. SumFunction(f) = SumOver(f, DOMAIN r)  BY <2>14, SumsSame
    <3> HIDE DEF M, N
    <3> QED  BY <2>2, <2>4, <2>16, <2>17, <2>18, <3>1
  <2>20. \A k \in DOMAIN r : r[k].weight <= cap  BY <2>4, <2>12 DEF AllUnder
  <2> QED  BY <2>5, <2>11, <2>19, <2>20 DEF CappedTargets, f
<1> QED  BY <1>1, <1>2

\* What a strategy aims at, on any day and with whatever is stored.
LEMMA TargetsAreCapped ==
    ASSUME BarsInv, NEW day, NEW strategy \in Tried
    PROVE  CappedTargets(strategy, Targets(strategy, View(bars, statements, day), Universe))
<1> DEFINE seen == Answers(View(bars, statements, day))
           score == Scores(strategy.kind, seen, Universe)
           ranking == Ranking(Universe, score)
           enough == IF strategy.min_score = NA THEN ranking
                     ELSE ScoringEnough(ranking, strategy.min_score)
           m == Min({strategy.top_n, Len(enough)})
           best == SubSeq(enough, 1, m)
<1>1. \A n \in Range(Universe) : score[n] \in Int  BY ScoresAreInts
<1> HIDE DEF score
<1>2. Ranked(ranking)  BY <1>1, RankingRanked
<1>3. Select(strategy.kind, seen, Universe) = ranking
  <2>1. {Ranking(Universe, s) : s \in {Evaluated(score)}} = {ranking}  BY WorkedOut
  <2> QED  BY <2>1, WorkedOut DEF Select, score
<1>4. Targets(strategy, View(bars, statements, day), Universe) = TargetWeights(strategy, ranking)
  <2>1. {TargetWeights(strategy, r) : r \in {ranking}} = {TargetWeights(strategy, ranking)}
    OBVIOUS
  <2> HIDE DEF ranking
  <2> QED  BY <1>3, <2>1, WorkedOut DEF Targets
<1> HIDE DEF ranking
<1>5. TargetWeights(strategy, ranking) = Weighted(strategy, best)
  BY DEF TargetWeights, ScoringEnough
<1>6. Ranked(enough)  BY <1>2, KeepRanked
<1> HIDE DEF enough
<1>7. Len(enough) \in Nat /\ strategy.top_n \in Nat  BY <1>6, HistoryAssumption DEF Ranked
<1>8. m \in Nat /\ m <= Len(enough)  BY <1>7, MinOfTwo
<1> HIDE DEF m
<1>9. Ranked(best)  BY <1>6, <1>8, FirstRanked
<1> HIDE DEF best
<1> QED  BY <1>4, <1>5, <1>9, WeightedCapped

------------------------------------------------------------------------------
(* Books.                                                                   *)

Holding == [quantity : Nat \ {0}, cost : Nat, since : Int]
Holdings == UNION {[D -> Holding] : D \in SUBSET Names}
Trade == [name : Names, quantity : Nat, days : Int, pnl : Int]
Book == [cash : Nat, holdings : Holdings, trades : Seq(Trade), fees : Int, costs : Int, traded : Int]

\* The books whose trades explain their cash.
Balanced == {b \in Book : Explained(b)}

Pnl(ts) == SumOver([i \in DOMAIN ts |-> ts[i].pnl], DOMAIN ts)
Paid(h) == SumOver([n \in DOMAIN h |-> h[n].cost], DOMAIN h)

LEMMA NamesFinite ==
    /\ IsFiniteSet(Names)
    /\ \A h \in Holdings : /\ DOMAIN h \subseteq Names /\ IsFiniteSet(DOMAIN h)
                           /\ h = [n \in DOMAIN h |-> h[n]]
                           /\ \A n \in DOMAIN h : h[n] \in Holding
<1>1. IsFiniteSet(Names)
  <2> DEFINE places == DOMAIN Universe
  <2>1. places = 1..Len(Universe) /\ Len(Universe) \in Nat  BY HistoryAssumption
  <2>2. IsFiniteSet(places)  BY <2>1, FS_Interval
  <2>3. Range(Universe) = {Universe[i] : i \in places}  BY DEF Range
  <2>4. IsFiniteSet(Range(Universe))  BY <2>2, <2>3, FiniteImage
  <2> QED  BY <2>4, FS_AddElement DEF Names
<1>2. ASSUME NEW h \in Holdings
      PROVE  /\ DOMAIN h \subseteq Names /\ IsFiniteSet(DOMAIN h)
             /\ h = [n \in DOMAIN h |-> h[n]]
             /\ \A n \in DOMAIN h : h[n] \in Holding
  <2>1. PICK D \in SUBSET Names : h \in [D -> Holding]  BY DEF Holdings
  <2>2. IsFiniteSet(D)  BY <1>1, FS_Subset
  <2> QED  BY <2>1, <2>2
<1> QED  BY <1>1, <1>2

LEMMA IsHoldings ==
    ASSUME NEW D \in SUBSET Names, NEW h, h = [n \in D |-> h[n]], \A n \in D : h[n] \in Holding
    PROVE  h \in Holdings
<1>1. h \in [D -> Holding]  OBVIOUS
<1> QED  BY <1>1 DEF Holdings

\* The books that are explained, in the sums of Folding.
LEMMA BalancedIs ==
    ASSUME NEW b \in Book
    PROVE  /\ Explained(b) <=> b.cash = Capital + Pnl(b.trades) - b.fees - Paid(b.holdings)
           /\ Pnl(b.trades) \in Int /\ Paid(b.holdings) \in Int
<1> DEFINE f == [i \in DOMAIN b.trades |-> b.trades[i].pnl]
           g == [n \in DOMAIN b.holdings |-> b.holdings[n].cost]
<1>1. SumFunction(f) = Pnl(b.trades) /\ SumFunction(g) = Paid(b.holdings)
  <2>1. DOMAIN f = DOMAIN b.trades /\ DOMAIN g = DOMAIN b.holdings  OBVIOUS
  <2> QED  BY <2>1, SumsSame DEF Pnl, Paid
<1>2. b.cash \in Nat /\ b.trades \in Seq(Trade) /\ b.holdings \in Holdings  BY DEF Book
<1>3. Sells!IsFiniteSet(DOMAIN b.trades)
  <2>1. DOMAIN b.trades = 1..Len(b.trades) /\ Len(b.trades) \in Nat  BY <1>2
  <2>2. IsFiniteSet(DOMAIN b.trades)  BY <2>1, FS_Interval
  <2> QED  BY <2>2, SumsSame
<1>4. Sells!IsFiniteSet(DOMAIN b.holdings)  BY <1>2, NamesFinite, SumsSame
<1>5. \A i \in DOMAIN b.trades : f[i] \in Int
  <2>1. \A i \in DOMAIN b.trades : b.trades[i] \in Trade  BY <1>2
  <2> QED  BY <2>1 DEF Trade
<1>6. \A n \in DOMAIN b.holdings : g[n] \in Int
  <2>1. \A n \in DOMAIN b.holdings : b.holdings[n] \in Holding  BY <1>2, NamesFinite
  <2> QED  BY <2>1 DEF Holding
<1>7. Pnl(b.trades) = SumOver(f, DOMAIN b.trades) /\ Paid(b.holdings) = SumOver(g, DOMAIN b.holdings)
  BY DEF Pnl, Paid
<1>10. Explained(b) <=> b.cash >= 0 /\ b.cash = Capital + SumFunction(f) - b.fees - SumFunction(g)
  BY DEF Explained
<1> HIDE DEF f, g
<1>8. Pnl(b.trades) \in Int  BY <1>3, <1>5, <1>7, Sells!SumInt DEF SumOver
<1>9. Paid(b.holdings) \in Int  BY <1>4, <1>6, <1>7, Sells!SumInt DEF SumOver
<1> QED  BY <1>1, <1>2, <1>8, <1>9, <1>10

\* One more trade.
LEMMA PnlGrows ==
    ASSUME NEW ts \in Seq(Trade), NEW t \in Trade
    PROVE  Pnl(Append(ts, t)) = Pnl(ts) + t.pnl
<1> DEFINE us == Append(ts, t)
           n == Len(ts) + 1
           S == DOMAIN ts
           f == [i \in DOMAIN ts |-> ts[i].pnl]
           g == [i \in DOMAIN us |-> us[i].pnl]
<1>1. /\ DOMAIN us = S \cup {n} /\ n \notin S
      /\ us[n] = t /\ \A i \in S : us[i] = ts[i]
      /\ S = 1..Len(ts) /\ Len(ts) \in Nat
      /\ \A i \in S : ts[i] \in Trade
  OBVIOUS
<1>2. Sells!IsFiniteSet(S)
  <2>1. IsFiniteSet(S)  BY <1>1, FS_Interval
  <2> QED  BY <2>1, SumsSame
<1>3. Pnl(us) = SumOver(g, S \cup {n}) /\ Pnl(ts) = SumOver(f, S)  BY <1>1 DEF Pnl
<1>4. /\ \A i \in S : f[i] = g[i] /\ f[i] \in Int
      /\ \A i \in S \cup {n} : g[i] \in Int
      /\ g[n] = t.pnl /\ t.pnl \in Int
  BY <1>1 DEF Trade
<1> HIDE DEF us, n, S, f, g
<1>5. SumOver(g, S \cup {n}) = g[n] + SumOver(g, S)  BY <1>1, <1>2, <1>4, Sells!SumAdds DEF SumOver
<1>6. SumOver(f, S) = SumOver(g, S) /\ SumOver(f, S) \in Int
  BY <1>2, <1>4, Sells!SumEqual, Sells!SumInt DEF SumOver
<1>7. Pnl(us) = Pnl(ts) + t.pnl
  <2> HIDE DEF SumOver
  <2> QED  BY <1>3, <1>4, <1>5, <1>6
<1> QED  BY <1>7 DEF us

\* A holding that changes, comes or goes.
LEMMA PaidMoves ==
    ASSUME NEW h \in Holdings, NEW k \in Holdings, NEW a,
           DOMAIN k \ {a} = DOMAIN h \ {a}, \A x \in DOMAIN h \ {a} : k[x] = h[x]
    PROVE  Paid(k) = Paid(h) + (IF a \in DOMAIN k THEN k[a].cost ELSE 0)
                             - (IF a \in DOMAIN h THEN h[a].cost ELSE 0)
<1> DEFINE f == [n \in DOMAIN h |-> h[n].cost]
           g == [n \in DOMAIN k |-> k[n].cost]
           S == DOMAIN h
           R == DOMAIN k
<1>1. Sells!IsFiniteSet(S)  BY NamesFinite, SumsSame
<1>2. /\ \A n \in S : h[n] \in Holding
      /\ \A n \in R : k[n] \in Holding
  BY NamesFinite
<1>3. /\ \A n \in S : f[n] \in Int /\ f[n] = h[n].cost
      /\ \A n \in R : g[n] \in Int /\ g[n] = k[n].cost
  BY <1>2 DEF Holding
<1>4. \A n \in S \ {a} : g[n] = f[n]  OBVIOUS
<1>5. R \ {a} = S \ {a}  OBVIOUS
<1>6. Paid(h) = SumOver(f, S) /\ Paid(k) = SumOver(g, R)  BY DEF Paid
<1> HIDE DEF f, g, S, R
<1>7. SumOver(g, R) = SumOver(f, S) + (IF a \in R THEN g[a] ELSE 0) - (IF a \in S THEN f[a] ELSE 0)
  BY <1>1, <1>3, <1>4, <1>5, Sells!SumMoves DEF SumOver
<1>8. (a \in R => g[a] = k[a].cost) /\ (a \in S => f[a] = h[a].cost)  BY <1>3
<1>9. Paid(k) = Paid(h) + (IF a \in R THEN k[a].cost ELSE 0) - (IF a \in S THEN h[a].cost ELSE 0)
  BY <1>6, <1>7, <1>8
<1> QED  BY <1>9 DEF R, S

\* A share of up to the whole.
LEMMA ShareOf ==
    ASSUME NEW x \in Nat, NEW weight \in Nat
    PROVE  Share(x, weight) \in Nat /\ (weight <= 10000 => Share(x, weight) <= x)
                                  /\ (weight >= 10000 => Share(x, weight) >= x)
<1>1. x * weight = weight * x  OBVIOUS
<1> QED  BY <1>1, Portion DEF Share

LEMMA PaidWithin ==
    ASSUME NEW x \in Nat
    PROVE  PaidOn(x) \in 0..x
<1>1. Commission \in Nat /\ Commission <= 10000  BY CostAssumption
<1>2. Share(x, Commission) \in Nat /\ Share(x, Commission) <= x  BY <1>1, ShareOf
<1>3. PaidOn(x) = Share(x, Commission)  BY DEF PaidOn
<1> QED  BY <1>2, <1>3

\* A part of a holding costs its part of what was paid, the whole of it all.
LEMMA CostOfPart ==
    ASSUME NEW h \in Holding, NEW q \in 1..h.quantity
    PROVE  CostOf(h, q) \in 0..h.cost /\ (q = h.quantity => CostOf(h, q) = h.cost)
<1>1. h.cost \in Nat /\ h.quantity \in Nat \ {0} /\ q \in Nat /\ q <= h.quantity  BY DEF Holding
<1> DEFINE c == h.cost
           t == h.quantity
<1>2. c * q = q * c  BY <1>1
<1> HIDE DEF c, t
<1>3. (q * c) \div t \in Nat /\ (q * c) \div t <= c /\ (q >= t => (q * c) \div t >= c)
  BY <1>1, Portion DEF c, t
<1>4. CostOf(h, q) = (q * c) \div t  BY <1>2 DEF CostOf, c, t
<1> QED  BY <1>1, <1>3, <1>4 DEF c, t

\* What is left of a holding.
LEMMA LessHolding ==
    ASSUME NEW g \in Holding, NEW x, NEW y
    PROVE  [g EXCEPT !.quantity = x, !.cost = y] = [quantity |-> x, cost |-> y, since |-> g.since]
<1> DEFINE k == [g EXCEPT !.quantity = x, !.cost = y]
           l == [quantity |-> x, cost |-> y, since |-> g.since]
           fields == {"quantity", "cost", "since"}
<1>1. DOMAIN g = fields  BY DEF Holding
<1>2. k.quantity = x /\ k.cost = y /\ k.since = g.since  BY <1>1
<1>3. DOMAIN k = fields  BY <1>1
<1>4. k = [f \in fields |-> k[f]]  BY <1>3
<1> HIDE DEF k
<1>5. /\ l.quantity = x /\ l.cost = y /\ l.since = g.since
      /\ l = [f \in fields |-> l[f]]
  OBVIOUS
<1> HIDE DEF l
<1>6. k = l  BY <1>2, <1>4, <1>5
<1> QED  BY <1>6 DEF k, l

\* _rebalance, selling: what a trade shows is what the cash gains, less what
\* was paid for the part sold.
LEMMA Sold ==
    ASSUME NEW b \in Balanced, NEW n \in DOMAIN b.holdings, NEW q \in 1..b.holdings[n].quantity,
           NEW price \in Nat, NEW day \in Int
    PROVE  Sell(b, n, q, price, day) \in Balanced
<1> DEFINE h == b.holdings[n]
           fill == Share(price, 10000 - Slippage)
           gross == fill * q
           paid == PaidOn(gross)
           cost == CostOf(h, q)
           left == [h EXCEPT !.quantity = h.quantity - q, !.cost = h.cost - cost]
           trade == [name |-> n, quantity |-> q, days |-> day - h.since, pnl |-> gross - cost - paid]
           rest == IF left.quantity = 0 THEN Restrict(b.holdings, DOMAIN b.holdings \ {n})
                   ELSE [b.holdings EXCEPT ![n] = left]
           new == Sell(b, n, q, price, day)
<1>1. /\ b \in Book /\ b.cash \in Nat /\ b.holdings \in Holdings /\ b.trades \in Seq(Trade)
      /\ b.fees \in Int /\ b.costs \in Int /\ b.traded \in Int
  BY DEF Balanced, Book
<1>2. DOMAIN b.holdings \subseteq Names /\ h \in Holding
      /\ \A m \in DOMAIN b.holdings : b.holdings[m] \in Holding
  BY <1>1, NamesFinite
<1>3. h.quantity \in Nat \ {0} /\ h.cost \in Nat /\ h.since \in Int /\ q \in Nat \ {0} /\ q <= h.quantity
  BY <1>2 DEF Holding
<1>4. fill \in Nat
  <2>1. PICK w \in Nat : w = 10000 - Slippage  BY CostAssumption
  <2>2. Share(price, w) \in Nat  BY ShareOf
  <2> QED  BY <2>1, <2>2
<1>5. gross \in Nat
  <2> HIDE DEF fill
  <2> QED  BY <1>3, <1>4
<1>6. paid \in 0..gross
  <2> HIDE DEF gross
  <2> QED  BY <1>5, PaidWithin
<1>7. cost \in 0..h.cost /\ (q = h.quantity => cost = h.cost)  BY <1>2, CostOfPart
<1> DEFINE costs == b.costs + paid + (price - fill) * q
<1>8. new = [b EXCEPT !.cash = b.cash + gross - paid, !.costs = costs,
                      !.traded = b.traded + gross, !.trades = Append(b.trades, trade),
                      !.holdings = rest]
  BY DEF Sell
<1>9. costs \in Int
  <2> HIDE DEF fill, gross, paid
  <2> QED  BY <1>1, <1>3, <1>4, <1>5, <1>6
<1> HIDE DEF fill, gross, paid, cost, new, costs
<1>10. trade \in Trade  BY <1>2, <1>3, <1>5, <1>6, <1>7 DEF Trade
<1>11. left.quantity = h.quantity - q /\ left.cost = h.cost - cost /\ left.since = h.since
       /\ (left.quantity # 0 => left \in Holding)
  <2>1. left = [quantity |-> h.quantity - q, cost |-> h.cost - cost, since |-> h.since]
    <3>1. h \in Holding  BY <1>2
    <3> HIDE DEF h
    <3> QED  BY <3>1, LessHolding
  <2> HIDE DEF left
  <2> QED  BY <1>3, <1>7, <2>1 DEF Holding
<1> HIDE DEF left, h
<1>12. /\ rest \in Holdings /\ DOMAIN rest \ {n} = DOMAIN b.holdings \ {n}
       /\ \A m \in DOMAIN b.holdings \ {n} : rest[m] = b.holdings[m]
       /\ IF left.quantity = 0 THEN n \notin DOMAIN rest
          ELSE n \in DOMAIN rest /\ rest[n] = left
  <2>1. CASE left.quantity = 0
    <3> DEFINE D == DOMAIN b.holdings \ {n}
    <3>1. rest = [m \in D |-> b.holdings[m]]  BY <2>1 DEF Restrict
    <3>2. DOMAIN rest = D /\ \A m \in D : rest[m] = b.holdings[m]  BY <3>1
    <3>3. rest = [m \in D |-> rest[m]]  BY <3>1
    <3>4. D \in SUBSET Names /\ \A m \in D : rest[m] \in Holding  BY <1>2, <3>2
    <3> HIDE DEF rest
    <3>5. rest \in Holdings  BY <3>3, <3>4, IsHoldings
    <3> QED  BY <2>1, <3>2, <3>5
  <2>2. CASE left.quantity # 0
    <3> DEFINE D == DOMAIN b.holdings
    <3>1. rest = [b.holdings EXCEPT ![n] = left]  BY <2>2
    <3>2. DOMAIN rest = D /\ rest[n] = left /\ \A m \in D \ {n} : rest[m] = b.holdings[m]  BY <3>1
    <3>3. rest = [m \in D |-> rest[m]]  BY <3>1
    <3>4. D \in SUBSET Names /\ \A m \in D : rest[m] \in Holding  BY <1>2, <1>11, <2>2, <3>2
    <3> HIDE DEF rest
    <3>5. rest \in Holdings  BY <3>3, <3>4, IsHoldings
    <3> QED  BY <2>2, <3>2, <3>5
  <2> QED  BY <2>1, <2>2
<1> HIDE DEF rest
<1>13. Paid(rest) = Paid(b.holdings) - cost
  <2>1. Paid(rest) = Paid(b.holdings) + (IF n \in DOMAIN rest THEN rest[n].cost ELSE 0)
                                      - (IF n \in DOMAIN b.holdings THEN b.holdings[n].cost ELSE 0)
    BY <1>1, <1>12, PaidMoves
  <2>2. Paid(b.holdings) \in Int  BY <1>1, BalancedIs
  <2>3. CASE left.quantity = 0
    <3>1. q = h.quantity  BY <1>3, <1>11, <2>3
    <3> QED  BY <1>3, <1>7, <1>12, <2>1, <2>2, <2>3, <3>1 DEF h
  <2>4. CASE left.quantity # 0
    BY <1>3, <1>7, <1>11, <1>12, <2>1, <2>2, <2>4 DEF h
  <2> QED  BY <2>3, <2>4
<1>14. Pnl(Append(b.trades, trade)) = Pnl(b.trades) + gross - cost - paid
  <2>1. trade.pnl = gross - cost - paid  OBVIOUS
  <2> HIDE DEF trade
  <2>2. Pnl(b.trades) \in Int  BY <1>1, BalancedIs
  <2> QED  BY <1>1, <1>5, <1>6, <1>7, <1>10, <2>1, <2>2, PnlGrows
<1>15. Append(b.trades, trade) \in Seq(Trade)
  <2> HIDE DEF trade
  <2> QED  BY <1>1, <1>10
<1> HIDE DEF trade
<1>16. /\ new.cash = b.cash + gross - paid /\ new.costs = costs /\ new.traded = b.traded + gross
       /\ new.trades = Append(b.trades, trade) /\ new.holdings = rest /\ new.fees = b.fees
       /\ new = [cash |-> new.cash, holdings |-> new.holdings, trades |-> new.trades,
                 fees |-> new.fees, costs |-> new.costs, traded |-> new.traded]
  BY <1>1, <1>8 DEF Book
<1>17. new \in Book
  <2>1. new.cash \in Nat  BY <1>1, <1>5, <1>6, <1>16
  <2>2. new.traded \in Int  BY <1>1, <1>5, <1>16
  <2>3. new.costs \in Int /\ new.fees \in Int  BY <1>1, <1>9, <1>16
  <2>4. new.holdings \in Holdings /\ new.trades \in Seq(Trade)  BY <1>12, <1>15, <1>16
  <2> QED  BY <1>16, <2>1, <2>2, <2>3, <2>4, Zenon DEF Book
<1>18. Explained(new)
  <2>1. b.cash = Capital + Pnl(b.trades) - b.fees - Paid(b.holdings)
        /\ Pnl(b.trades) \in Int /\ Paid(b.holdings) \in Int
    BY <1>1, BalancedIs DEF Balanced
  <2>2. Capital \in Int /\ gross \in Int /\ paid \in Int /\ cost \in Int
    BY <1>3, <1>5, <1>6, <1>7, HistoryAssumption
  <2>3. b.cash + gross - paid
           = Capital + (Pnl(b.trades) + gross - cost - paid) - b.fees - (Paid(b.holdings) - cost)
    <3> HIDE DEF Balanced
    <3> QED  BY <1>1, <2>1, <2>2
  <2>4. new.cash = Capital + Pnl(new.trades) - new.fees - Paid(new.holdings)
    BY <1>13, <1>14, <1>16, <2>3
  <2> QED  BY <1>17, <2>4, BalancedIs
<1> QED  BY <1>17, <1>18 DEF Balanced, new

\* What is paid with the commission is affordable, or nothing is bought.
LEMMA Bought ==
    ASSUME NEW b \in Balanced, NEW n \in Names, NEW value \in Nat,
           NEW price \in Nat \ {0}, NEW day \in Int
    PROVE  Buy(b, n, value, price, day) \in Balanced
<1> DEFINE fill == Share(price, 10000 + Slippage)
           afford == Affordable(b, value)
           quantity == afford \div fill
           gross == fill * quantity
           paid == PaidOn(gross)
           since == IF n \in DOMAIN b.holdings THEN b.holdings[n].since ELSE day
           cost == AddedCost(b, n, fill, quantity)
           item == [quantity |-> Held(b, n) + quantity, since |-> since, cost |-> cost]
           more == Put(b.holdings, n, item)
           costs == b.costs + paid + (fill - price) * quantity
           new == Buy(b, n, value, price, day)
           refused == quantity <= 0 \/ gross + paid > b.cash
<1>1. /\ b \in Book /\ b.cash \in Nat /\ b.holdings \in Holdings /\ b.trades \in Seq(Trade)
      /\ b.fees \in Int /\ b.costs \in Int /\ b.traded \in Int
  BY DEF Balanced, Book
<1>2. DOMAIN b.holdings \subseteq Names /\ \A m \in DOMAIN b.holdings : b.holdings[m] \in Holding
  BY <1>1, NamesFinite
<1>3. fill \in Nat \ {0}
  <2>1. PICK w \in Nat : w = 10000 + Slippage /\ w >= 10000  BY CostAssumption
  <2>2. Share(price, w) \in Nat /\ Share(price, w) >= price
    <3>1. price \in Nat /\ w >= 10000  BY <2>1
    <3> QED  BY <3>1, ShareOf
  <2> HIDE DEF fill
  <2>3. fill \in Nat /\ fill >= price  BY <2>1, <2>2 DEF fill
  <2> QED  BY <2>3
<1>4. afford \in Nat
  <2> DEFINE rest == (b.cash * 10000) \div (10000 + Commission)
  <2>1. rest \in Nat
    <3>1. PICK x \in Nat : x = b.cash * 10000  BY <1>1
    <3>2. PICK y \in Nat \ {0} : y = 10000 + Commission  BY CostAssumption
    <3>3. x \div y \in Nat  BY <3>1, <3>2
    <3> QED  BY <3>1, <3>2, <3>3
  <2> HIDE DEF rest
  <2>2. Min({value, rest}) \in Nat  BY <2>1, MinOfTwo
  <2> QED  BY <2>2 DEF Affordable, rest
<1> HIDE DEF fill, afford
<1>5. quantity \in Nat  BY <1>3, <1>4
<1> HIDE DEF quantity
<1>6. gross \in Nat  BY <1>3, <1>5
<1>7. costs \in Int /\ paid \in 0..gross
  <2>1. paid \in 0..gross
    <3> HIDE DEF gross
    <3> QED  BY <1>6, PaidWithin
  <2> HIDE DEF paid, gross
  <2> QED  BY <1>1, <1>3, <1>5, <1>6, <2>1
<1>8. new = IF refused THEN b
            ELSE [b EXCEPT !.cash = b.cash - gross - paid, !.fees = b.fees + paid, !.costs = costs,
                           !.traded = b.traded + gross, !.holdings = more]
  BY DEF Buy, fill, afford, quantity
<1> HIDE DEF gross, paid, costs
<1>9. since \in Int  BY <1>2 DEF Holding
<1>10. Held(b, n) \in Nat  BY <1>2 DEF Held, Holding
<1>11. cost \in Nat /\ cost = gross + (IF n \in DOMAIN b.holdings THEN b.holdings[n].cost ELSE 0)
  BY <1>2, <1>6 DEF AddedCost, Holding, gross
<1> HIDE DEF since, cost, new
<1>12. CASE refused  BY <1>8, <1>12 DEF new
<1>13. CASE ~ refused
  <2>1. quantity \in Nat \ {0} /\ gross + paid <= b.cash  BY <1>1, <1>5, <1>6, <1>7, <1>13
  <2>2. item \in Holding  BY <1>9, <1>10, <1>11, <2>1 DEF Holding
  <2>3. item.cost = cost  OBVIOUS
  <2> HIDE DEF item
  <2>4. /\ DOMAIN more = DOMAIN b.holdings \cup {n} /\ more[n] = item
        /\ \A m \in DOMAIN b.holdings \ {n} : more[m] = b.holdings[m]
        /\ more = [m \in DOMAIN b.holdings \cup {n} |-> more[m]]
    BY DEF Put
  <2> HIDE DEF more
  <2>5. more \in Holdings
    <3> DEFINE D == DOMAIN b.holdings \cup {n}
    <3>1. D \in SUBSET Names /\ \A m \in D : more[m] \in Holding  BY <1>2, <2>2, <2>4
    <3>2. more = [m \in D |-> more[m]]  BY <2>4
    <3> HIDE DEF D
    <3> QED  BY <3>1, <3>2, IsHoldings
  <2>6. Paid(more) = Paid(b.holdings) + gross
    <3>1. DOMAIN more \ {n} = DOMAIN b.holdings \ {n}  BY <2>4
    <3>2. Paid(more) = Paid(b.holdings) + (IF n \in DOMAIN more THEN more[n].cost ELSE 0)
                         - (IF n \in DOMAIN b.holdings THEN b.holdings[n].cost ELSE 0)
      BY <1>1, <2>4, <2>5, <3>1, PaidMoves
    <3>3. Paid(b.holdings) \in Int  BY <1>1, BalancedIs
    <3>4. n \in DOMAIN more /\ more[n].cost = cost  BY <2>3, <2>4
    <3>5. n \in DOMAIN b.holdings => b.holdings[n].cost \in Nat  BY <1>2 DEF Holding
    <3> QED  BY <1>6, <1>11, <3>2, <3>3, <3>4, <3>5
  <2>7. /\ new.cash = b.cash - gross - paid /\ new.fees = b.fees + paid /\ new.costs = costs
        /\ new.traded = b.traded + gross /\ new.holdings = more /\ new.trades = b.trades
        /\ new = [cash |-> new.cash, holdings |-> new.holdings, trades |-> new.trades,
                  fees |-> new.fees, costs |-> new.costs, traded |-> new.traded]
    BY <1>1, <1>8, <1>13 DEF Book
  <2>8. new \in Book
    <3>1. new.cash \in Nat  BY <1>1, <1>6, <1>7, <2>1, <2>7
    <3>2. new.traded \in Int /\ new.fees \in Int  BY <1>1, <1>6, <1>7, <2>7
    <3>3. new.costs \in Int  BY <1>7, <2>7
    <3>4. new.holdings \in Holdings /\ new.trades \in Seq(Trade)  BY <1>1, <2>5, <2>7
    <3> QED  BY <2>7, <3>1, <3>2, <3>3, <3>4, Zenon DEF Book
  <2>9. Explained(new)
    <3>1. b.cash = Capital + Pnl(b.trades) - b.fees - Paid(b.holdings)
          /\ Pnl(b.trades) \in Int /\ Paid(b.holdings) \in Int
      BY <1>1, BalancedIs DEF Balanced
    <3>2. Capital \in Int /\ gross \in Int /\ paid \in Int  BY <1>6, <1>7, HistoryAssumption
    <3>3. b.cash - gross - paid
             = Capital + Pnl(b.trades) - (b.fees + paid) - (Paid(b.holdings) + gross)
      <4> HIDE DEF Balanced
      <4> QED  BY <1>1, <3>1, <3>2
    <3>4. new.cash = Capital + Pnl(new.trades) - new.fees - Paid(new.holdings)
      BY <2>6, <2>7, <3>3
    <3> QED  BY <2>8, <3>4, BalancedIs
  <2> QED  BY <2>8, <2>9 DEF Balanced, new
<1> QED  BY <1>12, <1>13

------------------------------------------------------------------------------
(* Rebalancing.                                                             *)

\* The weight of a name, and the value that is aimed at.
LEMMA GoalNat ==
    ASSUME NEW plan, plan.targets \in Seq(Target), plan.equity \in Nat, NEW n
    PROVE  Goal(plan, n) \in Nat
<1> DEFINE ts == plan.targets
           own == {i \in DOMAIN ts : ts[i].name = n}
           w == [i \in own |-> ts[i].weight]
<1>1. DOMAIN ts = 1..Len(ts) /\ Len(ts) \in Nat /\ \A i \in DOMAIN ts : ts[i] \in Target  OBVIOUS
<1>2. IsFiniteSet(DOMAIN ts)  BY <1>1, FS_Interval
<1>3. IsFiniteSet(own)  BY <1>2, FS_Subset
<1>4. Sells!IsFiniteSet(own)  BY <1>3, SumsSame
<1>5. \A i \in own : w[i] \in Nat  BY <1>1 DEF Target
<1>6. Weight(ts, n) = SumOver(w, own)  BY SumsSame DEF Weight
<1> HIDE DEF own, w
<1>7. \A i \in own : w[i] \in Int  BY <1>5
<1>8. SumOver(w, own) \in Int  BY <1>4, <1>7, Sells!SumInt DEF SumOver
<1>9. {} \subseteq own  OBVIOUS
<1>10. SumOver(w, {}) <= SumOver(w, own)  BY <1>4, <1>5, <1>9, Sells!SumPart DEF SumOver
<1>11. SumOver(w, {}) = 0  BY Sells!SumEmpty DEF SumOver
<1>12. PICK x \in Nat : x = Weight(ts, n)  BY <1>6, <1>8, <1>10, <1>11
<1>13. PICK e \in Nat : e = plan.equity  OBVIOUS
<1>14. Share(e, x) \in Nat  BY ShareOf
<1> QED  BY <1>12, <1>13, <1>14 DEF Goal

\* The value of what is held is not negative.
LEMMA ValueNat ==
    ASSUME BarsInv, NEW day, NEW h \in Holdings
    PROVE  MarketValue(View(bars, statements, day), h) \in Nat
<1> DEFINE v == View(bars, statements, day)
           priced == Priced(v, DOMAIN h)
           worth == [n \in priced |-> PriceOn(v, n) * h[n].quantity]
<1>1. MarketValue(v, h) = SumOver(worth, priced)  BY SumsSame DEF MarketValue
<1>2. DOMAIN h \subseteq Names /\ IsFiniteSet(DOMAIN h) /\ \A n \in DOMAIN h : h[n] \in Holding
  BY NamesFinite
<1>3. \A n \in Names : PriceOn(v, n) \in Int  BY PriceIsInt
<1> HIDE DEF v
<1>4. priced \subseteq DOMAIN h /\ \A n \in priced : PriceOn(v, n) > 0  BY DEF Priced
<1> HIDE DEF priced
<1>5. Sells!IsFiniteSet(priced)
  <2>1. IsFiniteSet(priced)  BY <1>2, <1>4, FS_Subset
  <2> QED  BY <2>1, SumsSame
<1>6. \A n \in priced : worth[n] \in Nat
  <2> SUFFICES ASSUME NEW n \in priced PROVE worth[n] \in Nat  OBVIOUS
  <2>1. PICK p \in Nat : p = PriceOn(v, n)  BY <1>2, <1>3, <1>4
  <2>2. PICK q \in Nat : q = h[n].quantity  BY <1>2, <1>4 DEF Holding
  <2>3. p * q \in Nat  OBVIOUS
  <2> QED  BY <2>1, <2>2, <2>3
<1> HIDE DEF worth
<1>7. SumOver(worth, priced) \in Int
  <2>1. \A n \in priced : worth[n] \in Int  BY <1>6
  <2> QED  BY <1>5, <2>1, Sells!SumInt DEF SumOver
<1>8. {} \subseteq priced  OBVIOUS
<1>9. SumOver(worth, {}) <= SumOver(worth, priced)  BY <1>5, <1>6, <1>8, Sells!SumPart DEF SumOver
<1>10. SumOver(worth, {}) = 0  BY Sells!SumEmpty DEF SumOver
<1>11. SumOver(worth, priced) \in Nat  BY <1>7, <1>9, <1>10
<1> QED  BY <1>1, <1>11 DEF v

\* The elements of a finite set, in some order.
LEMMA SetListed ==
    ASSUME NEW S, IsFiniteSet(S)
    PROVE  SetToSeq(S) \in Seq(S)
<1> DEFINE lists(f) == f \in [1..Cardinality(S) -> S] /\ IsInjective(f)
<1>1. PICK k \in Nat : \E f : ExistsBijection(1..k, S)  BY FS_NatBijection
<1>2. Cardinality(S) = k  BY <1>1, FS_CountingElements
<1>3. PICK g \in Bijection(1..k, S) : TRUE  BY <1>1 DEF ExistsBijection
<1>4. lists(g)
  <2>1. g \in [1..k -> S] /\ \A x, y \in 1..k : g[x] = g[y] => x = y
    BY <1>3 DEF Bijection, Injection, IsInjective
  <2> QED  BY <1>2, <2>1 DEF IsInjective
<1>5. SetToSeq(S) = CHOOSE f \in [1..Cardinality(S) -> S] : IsInjective(f)  BY DEF SetToSeq
<1>6. SetToSeq(S) \in [1..k -> S]  BY <1>2, <1>4, <1>5
<1> QED  BY <1>6

\* What is held of a name that has a price is sold down to its goal.
LEMMA SoldDown ==
    ASSUME NEW plan, plan.targets \in Seq(Target), plan.equity \in Nat, plan.view.as_of \in Int,
           NEW n, PriceOn(plan.view, n) \in Nat \ {0}, NEW b \in Balanced
    PROVE  SellDown(plan, b, n) \in Balanced
<1>1. PICK price \in Nat \ {0} : price = PriceOn(plan.view, n)  OBVIOUS
<1>2. PICK goal \in Nat : goal = Goal(plan, n)  BY GoalNat
<1>3. PICK keep \in Nat : keep = goal \div price  OBVIOUS
<1>4. PICK day \in Int : day = plan.view.as_of  OBVIOUS
<1>5. SellDown(plan, b, n)
        = IF keep >= Held(b, n) THEN b ELSE Sell(b, n, Held(b, n) - keep, price, day)
  BY <1>1, <1>2, <1>3, <1>4 DEF SellDown
<1>6. CASE keep >= Held(b, n)  BY <1>5, <1>6
<1>7. CASE ~ (keep >= Held(b, n))
  <2>1. n \in DOMAIN b.holdings  BY <1>7 DEF Held
  <2>2. b.holdings \in Holdings  BY DEF Balanced, Book
  <2>3. b.holdings[n] \in Holding  BY <2>1, <2>2, NamesFinite
  <2>4. Held(b, n) = b.holdings[n].quantity /\ b.holdings[n].quantity \in Nat \ {0}
    BY <2>1, <2>3 DEF Held, Holding
  <2>5. PICK q \in 1..b.holdings[n].quantity : q = Held(b, n) - keep  BY <1>7, <2>4
  <2>6. price \in Nat  OBVIOUS
  <2>7. Sell(b, n, q, price, day) \in Balanced  BY <2>1, <2>6, Sold
  <2> QED  BY <1>5, <1>7, <2>5, <2>7
<1> QED  BY <1>6, <1>7

\* What is lacking of a target is bought, when it has a price.
LEMMA BoughtUp ==
    ASSUME NEW plan, plan.targets \in Seq(Target), plan.equity \in Nat, plan.view.as_of \in Int,
           NEW t \in Target, PriceOn(plan.view, t.name) \in Int, NEW b \in Balanced
    PROVE  BuyUp(plan, b, t) \in Balanced
<1>1. PICK price \in Int : price = PriceOn(plan.view, t.name)  OBVIOUS
<1>2. PICK n \in Names : n = t.name  BY DEF Target, Names
<1>3. PICK goal \in Nat : goal = Goal(plan, n)  BY GoalNat
<1>4. PICK day \in Int : day = plan.view.as_of  OBVIOUS
<1>5. PICK held \in Nat : held = Held(b, n)
  <2>1. b.holdings \in Holdings  BY DEF Balanced, Book
  <2>2. n \in DOMAIN b.holdings => b.holdings[n] \in Holding  BY <2>1, NamesFinite
  <2>3. Held(b, n) \in Nat  BY <2>2 DEF Held, Holding
  <2> QED  BY <2>3
<1>6. PICK lacking \in Int : lacking = goal - held * price
  <2>1. PICK x \in Int : x = held * price  OBVIOUS
  <2> QED  BY <2>1
<1>7. BuyUp(plan, b, t) = IF Priced(plan.view, {n}) = {} \/ lacking <= 0 THEN b
                          ELSE Buy(b, n, lacking, price, day)
  BY <1>1, <1>2, <1>3, <1>4, <1>5, <1>6 DEF BuyUp
<1>8. CASE Priced(plan.view, {n}) = {} \/ lacking <= 0  BY <1>7, <1>8
<1>9. CASE ~ (Priced(plan.view, {n}) = {} \/ lacking <= 0)
  <2>1. price > 0  BY <1>1, <1>2, <1>9 DEF Priced
  <2>2. lacking \in Nat /\ price \in Nat \ {0}  BY <1>9, <2>1
  <2>3. Buy(b, n, lacking, price, day) \in Balanced  BY <2>2, Bought
  <2> QED  BY <1>7, <1>9, <2>3
<1> QED  BY <1>8, <1>9

\* The folds of Rebalance, in the words of Folding.
SellAll(plan, book, names) == FoldLeft(LAMBDA b, n : SellDown(plan, b, n), book, names)
BuyAll(plan, book, targets) == FoldLeft(LAMBDA b, t : BuyUp(plan, b, t), book, targets)

LEMMA SalesAre ==
    ASSUME NEW plan, NEW b, NEW names
    PROVE  SellAll(plan, b, names) = Sells!Folded(plan, b, names)
  BY DEF SellAll, Sells!Folded, FoldLeft, MapThenFoldSet, Max,
         Sells!FoldLeft, Sells!MapThenFoldSet, Sells!Max

LEMMA PurchasesAre ==
    ASSUME NEW plan, NEW b, NEW targets
    PROVE  BuyAll(plan, b, targets) = Buys!Folded(plan, b, targets)
  BY DEF BuyAll, Buys!Folded, FoldLeft, MapThenFoldSet, Max,
         Buys!FoldLeft, Buys!MapThenFoldSet, Buys!Max

LEMMA HeaviestAre ==
    ASSUME NEW ts \in Seq(Target)
    PROVE  Heaviest(ts) \in Seq(Target)
<1> DEFINE w == [i \in DOMAIN ts |-> ts[i].weight]
           order == Best(w)
<1>1. DOMAIN ts = 1..Len(ts) /\ Len(ts) \in Nat /\ \A i \in DOMAIN ts : ts[i] \in Target  OBVIOUS
<1>2. DOMAIN w = DOMAIN ts /\ \A i \in DOMAIN w : w[i] \in Int  BY <1>1 DEF Target
<1>3. IsFiniteSet(DOMAIN w) /\ DOMAIN w \subseteq Int  BY <1>1, <1>2, FS_Interval
<1>4. Heaviest(ts) = [k \in DOMAIN order |-> ts[order[k]]]  BY DEF Heaviest
<1> HIDE DEF w
<1>5. Lists(order, DOMAIN ts)  BY <1>2, <1>3, BestLists
<1> HIDE DEF order
<1>6. order \in Seq(DOMAIN ts)  BY <1>5 DEF Lists
<1>7. DOMAIN order = 1..Len(order) /\ Len(order) \in Nat /\ \A k \in DOMAIN order : order[k] \in DOMAIN ts
  BY <1>6
<1>8. \A k \in DOMAIN order : ts[order[k]] \in Target  BY <1>1, <1>7
<1> QED  BY <1>4, <1>7, <1>8

\* Rebalancing keeps the books.
LEMMA Rebalanced ==
    ASSUME BarsInv, NEW b \in Balanced, NEW ts \in Seq(Target), NEW day \in Int
    PROVE  Rebalance(b, ts, View(bars, statements, day)) \in Balanced
<1> DEFINE v == View(bars, statements, day)
           plan == Plan(b, ts, v)
           S == Priced(v, DOMAIN b.holdings)
           names == SetToSeq(S)
           sold == Sells!Folded(plan, b, names)
<1>1. b.cash \in Nat /\ b.holdings \in Holdings  BY DEF Balanced, Book
<1>2. DOMAIN b.holdings \subseteq Names /\ IsFiniteSet(DOMAIN b.holdings)  BY <1>1, NamesFinite
<1>3. v.as_of = day  BY DEF View
<1>4. \A n \in Names : PriceOn(v, n) \in Int  BY PriceIsInt
<1>5. MarketValue(v, b.holdings) \in Nat  BY <1>1, ValueNat
<1> HIDE DEF v
<1>6. plan.view = v /\ plan.targets = ts /\ plan.equity \in Nat  BY <1>1, <1>5 DEF Plan
<1>7. /\ S \subseteq DOMAIN b.holdings
      /\ \A n \in S : PriceOn(v, n) \in Nat \ {0}
  BY <1>2, <1>4 DEF Priced
<1>8. Rebalance(b, ts, v) = Buys!Folded(plan, sold, Heaviest(ts))
  <2>1. Rebalance(b, ts, v) = BuyAll(plan, SellAll(plan, b, names), Heaviest(ts))
    BY Zenon DEF Rebalance, BuyAll, SellAll
  <2> HIDE DEF plan, names
  <2> QED  BY <2>1, SalesAre, PurchasesAre
<1> HIDE DEF plan, S
<1>9. IsFiniteSet(S)  BY <1>2, <1>7, FS_Subset
<1>10. names \in Seq(S)  BY <1>9, SetListed
<1> HIDE DEF names
<1>11. \A a \in Balanced, n \in S : SellDown(plan, a, n) \in Balanced
  <2> SUFFICES ASSUME NEW a \in Balanced, NEW n \in S PROVE SellDown(plan, a, n) \in Balanced
    OBVIOUS
  <2>1. PriceOn(plan.view, n) \in Nat \ {0}  BY <1>6, <1>7
  <2>2. plan.targets \in Seq(Target) /\ plan.equity \in Nat /\ plan.view.as_of \in Int
    BY <1>3, <1>6
  <2> QED  BY <2>1, <2>2, SoldDown
<1>12. sold \in Balanced  BY <1>10, <1>11, Sells!FoldedKeeps
<1> HIDE DEF sold
<1>13. \A a \in Balanced, t \in Target : BuyUp(plan, a, t) \in Balanced
  <2> SUFFICES ASSUME NEW a \in Balanced, NEW t \in Target PROVE BuyUp(plan, a, t) \in Balanced
    OBVIOUS
  <2>1. t.name \in Names  BY DEF Target, Names
  <2>2. PriceOn(plan.view, t.name) \in Int  BY <1>4, <1>6, <2>1
  <2>3. plan.targets \in Seq(Target) /\ plan.equity \in Nat /\ plan.view.as_of \in Int
    BY <1>3, <1>6
  <2> QED  BY <2>2, <2>3, BoughtUp
<1>14. Heaviest(ts) \in Seq(Target)  BY HeaviestAre
<1>15. Buys!Folded(plan, sold, Heaviest(ts)) \in Balanced  BY <1>12, <1>13, <1>14, Buys!FoldedKeeps
<1> QED  BY <1>8, <1>15 DEF v

------------------------------------------------------------------------------
(* The backtest.                                                            *)

Runs(t) ==
    /\ t.strategy \in Tried
    /\ t.calendar \in Seq(Int) /\ t.calendar # <<>>
    /\ t.at \in 1..(Len(t.calendar) + 1)
    /\ t.book \in Balanced
    /\ CappedTargets(t.strategy, t.pending)
RunInv ==
    /\ test # NoTest => Runs(test)
    /\ report # NoReport => report.book \in Balanced

\* The trading days are numbers.
LEMMA CalendarIs ==
    ASSUME BarsInv, NEW start
    PROVE  TradingCalendar(bars, start, today) \in Seq(Int)
<1> DEFINE days == {d \in UNION {DOMAIN bars[n] : n \in DOMAIN bars} : start <= d /\ d <= today}
           order == InOrder(days, LAMBDA a, b : a < b)
<1>1. today \in Nat  BY TodayIs
<1>2. DOMAIN bars = Names /\ \A n \in Names : DOMAIN bars[n] \subseteq 1..today
  BY DEF BarsInv, TypedBars
<1>3. days \in SUBSET (1..today) /\ \A d \in 1..today : d \in Int  BY <1>2
<1>4. TradingCalendar(bars, start, today) = order  BY DEF TradingCalendar
<1>5. IsFiniteSet(1..today)  BY <1>1, FS_Interval
<1> HIDE DEF days
<1>6. IsFiniteSet(days) /\ days \subseteq Int  BY <1>3, <1>5, FS_Subset
<1>7. Lists(order, days)  BY <1>6, NumbersOrdered
<1> HIDE DEF order
<1>8. order \in Seq(Int)
  <2>1. order \in Seq(days)  BY <1>7, Zenon DEF Lists
  <2>2. order = [i \in 1..Len(order) |-> order[i]] /\ Len(order) \in Nat
        /\ \A i \in 1..Len(order) : order[i] \in days
    BY <2>1
  <2>3. \A i \in 1..Len(order) : order[i] \in Int  BY <1>6, <2>2
  <2> QED  BY <2>2, <2>3
<1> QED  BY <1>4, <1>8

LEMMA NewBalanced == NewBook(Capital) \in Balanced
<1> DEFINE b == NewBook(Capital)
<1>1. /\ b.cash = Capital /\ b.holdings = <<>> /\ b.trades = <<>>
      /\ b.fees = 0 /\ b.costs = 0 /\ b.traded = 0
      /\ b = [cash |-> b.cash, holdings |-> b.holdings, trades |-> b.trades,
              fees |-> b.fees, costs |-> b.costs, traded |-> b.traded]
  BY DEF NewBook
<1> HIDE DEF b
<1>2. <<>> \in Seq(Trade) /\ DOMAIN <<>> = {}  OBVIOUS
<1>3. <<>> \in Holdings
  <2>1. <<>> \in [{} -> Holding]  OBVIOUS
  <2> QED  BY <2>1 DEF Holdings
<1>4. Capital \in Nat  BY HistoryAssumption
<1>5. b \in Book
  <2>1. b.holdings \in Holdings /\ b.trades \in Seq(Trade) /\ b.cash \in Nat  BY <1>1, <1>2, <1>3, <1>4
  <2>2. b.fees \in Int /\ b.costs \in Int /\ b.traded \in Int  BY <1>1
  <2> QED  BY <1>1, <2>1, <2>2, Zenon DEF Book
<1>6. Pnl(<<>>) = 0 /\ Paid(<<>>) = 0  BY <1>2, Sells!SumEmpty DEF Pnl, Paid, SumOver
<1>7. Explained(b)  BY <1>1, <1>4, <1>5, <1>6, BalancedIs
<1> QED  BY <1>5, <1>7 DEF Balanced, b

\* A day of the backtest is one of the calendar.
LEMMA DayIs ==
    ASSUME NEW t, Runs(t), NEW i \in 1..Len(t.calendar)
    PROVE  t.calendar[i] \in Int
<1>1. t.calendar \in Seq(Int)  BY DEF Runs
<1> QED  BY <1>1

LEMMA RunInit == Init => RunInv
  BY DEF Init, RunInv

\* StartTest begins with the capital, and with nothing decided.
LEMMA RunStart ==
    ASSUME BarsInv, NEW strategy \in Tried, NEW start, StartTest(strategy, start)
    PROVE  RunInv'
<1> DEFINE calendar == TradingCalendar(bars, start, today)
<1>1. /\ calendar # <<>> /\ report' = NoReport
      /\ test'.strategy = strategy /\ test'.calendar = calendar /\ test'.at = 1
      /\ test'.book = NewBook(Capital) /\ test'.pending = <<>>
  BY DEF StartTest
<1>2. calendar \in Seq(Int)  BY CalendarIs
<1>3. NewBook(Capital) \in Balanced  BY NewBalanced
<1>4. CappedTargets(strategy, <<>>)  BY NoTargets
<1> HIDE DEF calendar
<1>5. 1 \in 1..(Len(calendar) + 1)  BY <1>2
<1>6. Runs(test')  BY <1>1, <1>2, <1>3, <1>4, <1>5 DEF Runs
<1> QED  BY <1>1, <1>6 DEF RunInv

\* Walk executes what was decided, and decides within the cap.
LEMMA RunWalk ==
    ASSUME BarsInv, LogInv, RunInv, NEW fails \in BOOLEAN, Walk(fails)
    PROVE  RunInv'
<1> DEFINE v == View(bars, statements, Day)
<1>1. test # NoTest /\ Runs(test)  BY WalkMoves DEF RunInv
<1>2. /\ test'.strategy = test.strategy /\ test'.calendar = test.calendar
      /\ test'.at = test.at + 1 /\ test.at <= Len(test.calendar)
      /\ test'.book = IF test.decided THEN Rebalance(test.book, test.pending, v) ELSE test.book
      /\ test'.pending \in {<<>>, Targets(test.strategy, v, Universe)}
  BY WalkMoves
<1>3. /\ test.strategy \in Tried /\ test.calendar \in Seq(Int) /\ test.calendar # <<>>
      /\ test.at \in 1..(Len(test.calendar) + 1)
      /\ test.book \in Balanced /\ CappedTargets(test.strategy, test.pending)
  BY <1>1 DEF Runs
<1>4. test.at \in 1..Len(test.calendar)  BY <1>2, <1>3
<1>5. Day \in Int  BY <1>1, <1>4, DayIs DEF Day
<1>6. test'.book \in Balanced
  <2>1. test.pending \in Seq(Target)  BY <1>3 DEF CappedTargets
  <2>2. Rebalance(test.book, test.pending, v) \in Balanced  BY <1>3, <1>5, <2>1, Rebalanced
  <2> HIDE DEF v
  <2> QED  BY <1>2, <1>3, <2>2
<1>7. CappedTargets(test.strategy, test'.pending)
  <2>1. CappedTargets(test.strategy, <<>>)  BY <1>3, NoTargets
  <2>2. CappedTargets(test.strategy, Targets(test.strategy, v, Universe))  BY <1>3, TargetsAreCapped
  <2> HIDE DEF v
  <2> QED  BY <1>2, <2>1, <2>2
<1>8. test'.at \in 1..(Len(test.calendar) + 1)  BY <1>2, <1>3, <1>4
<1>9. Runs(test')  BY <1>2, <1>3, <1>6, <1>7, <1>8 DEF Runs
<1>10. report' = NoReport  BY DEF Walk
<1> QED  BY <1>9, <1>10 DEF RunInv

\* Finish sells everything, and keeps the book.
LEMMA RunFinish ==
    ASSUME BarsInv, RunInv, NEW seen \in BOOLEAN, Finish(seen)
    PROVE  RunInv'
<1> DEFINE last == test.calendar[Len(test.calendar)]
           book == Rebalance(test.book, <<>>, View(bars, statements, last))
<1>1. test' = NoTest /\ report'.book = book  BY DEF Finish
<1>2. test.phase = "running"  BY DEF Finish
<1>3. Runs(test)  BY <1>2 DEF RunInv, NoTest
<1>4. test.calendar \in Seq(Int) /\ test.calendar # <<>> /\ test.book \in Balanced  BY <1>3 DEF Runs
<1>5. Len(test.calendar) \in 1..Len(test.calendar)  BY <1>4
<1>6. last \in Int  BY <1>3, <1>5, DayIs
<1> HIDE DEF last
<1>7. <<>> \in Seq(Target)  OBVIOUS
<1>8. book \in Balanced  BY <1>4, <1>6, <1>7, Rebalanced
<1> QED  BY <1>1, <1>8 DEF RunInv

LEMMA RunStep == BarsInv /\ LogInv /\ RunInv /\ [Next]_vars => RunInv'
<1> SUFFICES ASSUME BarsInv, LogInv, RunInv, [Next]_vars PROVE RunInv'  OBVIOUS
<1>1. CASE UNCHANGED test /\ (UNCHANGED report \/ report' = NoReport)  BY <1>1 DEF RunInv
<1>2. ASSUME NEW strategy \in Tried, NEW start, StartTest(strategy, start) PROVE RunInv'
  BY <1>2, RunStart
<1>3. ASSUME NEW fails \in BOOLEAN, Walk(fails) PROVE RunInv'  BY <1>3, RunWalk
<1>4. ASSUME NEW seen \in BOOLEAN, Finish(seen) PROVE RunInv'  BY <1>4, RunFinish
<1>5. \/ UNCHANGED test /\ (UNCHANGED report \/ report' = NoReport)
      \/ \E strategy \in Tried, start \in Starts : StartTest(strategy, start)
      \/ \E fails \in BOOLEAN : Walk(fails)
      \/ \E seen \in BOOLEAN : Finish(seen)
  BY DEF Next, vars, NextDay, IngestPrices, ImportBulletin, IngestFundamentals, IngestItems
<1> QED  BY <1>1, <1>2, <1>3, <1>4, <1>5

LEMMA RunInvHolds == Spec => []RunInv
  BY RunInit, RunStep, BarsInvHolds, LogInvHolds, PTL DEF Spec

\* The types of the state, for any providers, payloads, names and strategies.
THEOREM TypesKept == Spec => []TypeOK
<1>1. BarsInv /\ RunInv => TypeOK
  <2> SUFFICES ASSUME BarsInv, RunInv PROVE TypeOK  OBVIOUS
  <2>1. today \in FirstDay..LastDay /\ DOMAIN statements = Range(Universe)  BY DEF BarsInv
  <2>2. ASSUME NEW n \in Names, NEW d \in DOMAIN bars[n]
        PROVE  d \in 1..today /\ bars[n][d].confidence \in Confidences
    BY DEF BarsInv, TypedBars, Typed
  <2>3. test # NoTest => test.at \in 1..(Len(test.calendar) + 1)  BY DEF RunInv, Runs
  <2> QED  BY <2>1, <2>2, <2>3 DEF TypeOK
<1> QED  BY <1>1, BarsInvHolds, RunInvHolds, PTL

\* target_weights: whatever the prices, the reports and the scores are, what is
\* over the cap of a position is handed on within the caps of the others, and
\* no more is aimed at than is to be invested.
THEOREM CapsKept == Spec => []TargetsCapped
<1>1. RunInv => TargetsCapped  BY DEF RunInv, Runs, CappedTargets, TargetsCapped
<1> QED  BY <1>1, RunInvHolds, PTL

\* _rebalance: through any number of buys and sells in part, with commission,
\* slippage and what rounding leaves, the trades and the cost of what is held
\* account for every unit of the cash, which is never negative.
THEOREM CashExplained == Spec => []TradesExplainCash
<1>1. RunInv => TradesExplainCash  BY DEF RunInv, Runs, Balanced, TradesExplainCash
<1> QED  BY <1>1, RunInvHolds, PTL
==============================================================================
