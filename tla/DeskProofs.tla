------------------------------ MODULE DeskProofs ------------------------------
(***************************************************************************)
(* Proofs about the desk, for any names, data and answers of the language  *)
(* model: the budget of a run, what words may do to a decision, that the   *)
(* figures of an analysis are numbers whatever of the data is missing, that*)
(* no size is advised on invented data, that orders of the sizes advised   *)
(* keep the limits of the portfolio, and what a page claims.               *)
(***************************************************************************)
EXTENDS Desk, FiniteSetTheorems, TLAPS

(* The budget.  The calls made are the calls counted.                      *)

BudgetInv == used \in Nat /\ calls = used /\ used <= CallLimit

LEMMA CompleteKeeps ==
    ASSUME BudgetInv, NEW answer, Complete(answer)
    PROVE  BudgetInv'
<1>1. CASE Refused  BY <1>1 DEF Complete, Counted, BudgetInv
<1>2. CASE ~ Refused
  <2>1. used < CallLimit  BY <1>2, DeskAssumption DEF Refused, BudgetInv
  <2>2. used' = used + 1 /\ calls' = calls + 1  BY <1>2 DEF Complete, Counted
  <2> QED  BY <2>1, <2>2, DeskAssumption DEF BudgetInv
<1> QED  BY <1>1, <1>2

LEMMA BudgetInvStep == BudgetInv /\ [Next]_vars => BudgetInv'
<1> SUFFICES ASSUME BudgetInv, [Next]_vars PROVE BudgetInv'  OBVIOUS
<1>1. ASSUME NEW request, BeginRun(request) PROVE BudgetInv'
  BY <1>1, DeskAssumption DEF BeginRun, BudgetInv
<1>2. ASSUME NEW answer, Ask(answer) \/ Decide(answer) PROVE BudgetInv'
  BY <1>2, CompleteKeeps DEF Ask, Decide
<1>3. CASE UNCHANGED <<used, calls>>  BY <1>3 DEF BudgetInv
<1>4. \/ UNCHANGED <<used, calls>>
      \/ \E request : BeginRun(request)
      \/ \E answer : Ask(answer) \/ Decide(answer)
  BY DEF Next, vars, Refresh, Score, SkipName, Rank, FailName, EndRun, OpenPage, Exit, Advise, Follow,
              Order, Buy, Fill
<1> QED  BY <1>1, <1>2, <1>3, <1>4

\* CallBudget: however calls fail and names are given up, the language model is
\* called no more often in a run than the budget allows.
THEOREM WithinBudget == Spec => []BudgetKept
<1>1. Init => BudgetInv  BY DeskAssumption DEF Init, BudgetInv
<1>2. BudgetInv => BudgetKept  BY DEF BudgetInv, BudgetKept
<1> QED  BY <1>1, <1>2, BudgetInvStep, PTL DEF Spec

------------------------------------------------------------------------------
(* The decision.                                                           *)

\* score_based_action answers one of the four actions, and only to watch what
\* has no score.
LEMMA NumbersAct ==
    ASSUME NEW pack, NEW held
    PROVE  /\ ScoreBasedAction(pack, held).action \in {"BUY", "HOLD", "WATCH", "SELL"}
           /\ ~ Has(pack, "alpha_score") => ScoreBasedAction(pack, held).action = "WATCH"
  BY DEF ScoreBasedAction

\* _derive_action: a neighbour of that, and only on the word of the model.
LEMMA WordsAct ==
    ASSUME NEW pack, NEW held, NEW output
    PROVE  LET numbers == ScoreBasedAction(pack, held)
               d == DeriveAction(pack, held, output)
           IN  /\ d.action = numbers.action \/ d.action \in Neighbours[numbers.action]
               /\ d.conviction = numbers.conviction
               /\ output.by # "llm" => d.action = numbers.action
               /\ ~ Has(pack, "alpha_score") => d.action = "WATCH"
<1> DEFINE numbers == ScoreBasedAction(pack, held)
           heard == Has(pack, "alpha_score") /\ output.by = "llm"
                      /\ output.stated \in Neighbours[numbers.action]
           d == DeriveAction(pack, held, output)
<1>1. DOMAIN numbers = {"action", "conviction"}  BY DEF ScoreBasedAction
<1>2. d = [numbers EXCEPT !.action = IF heard THEN output.stated ELSE numbers.action]
  BY DEF DeriveAction
<1>3. ~ Has(pack, "alpha_score") => numbers.action = "WATCH"  BY NumbersAct
<1> HIDE DEF numbers
<1>4. d.conviction = numbers.conviction /\ d.action = IF heard THEN output.stated ELSE numbers.action
  BY <1>1, <1>2
<1> HIDE DEF d
<1>5. QED  BY <1>3, <1>4 DEF numbers, d

\* evidence: a name has a score in its pack exactly when it has one.
LEMMA ScoreOffered ==
    ASSUME NEW d, NEW a
    PROVE  LET pack == BuildEvidencePack(d, a)
           IN  /\ Has(pack, "alpha_score") <=> Known(a.alpha.value)
               /\ Has(pack, "alpha_score") => pack.items["alpha_score"] = a.alpha.value
               /\ Known(a.alpha.coverage) => pack.items["score_coverage"] = a.alpha.coverage
               /\ Has(pack, "score_coverage") <=> Known(a.alpha.coverage)
<1> DEFINE pack == BuildEvidencePack(d, a)
<1>1. PICK g : LET offered == Joint(Scores(a.alpha), g)
               IN  pack.items = Restrict(offered, KnownTopics(offered))
  BY DEF BuildEvidencePack
<1> DEFINE offered == Joint(Scores(a.alpha), g)
<1>2. /\ "alpha_score" \in DOMAIN offered /\ offered["alpha_score"] = a.alpha.value
      /\ "score_coverage" \in DOMAIN offered /\ offered["score_coverage"] = a.alpha.coverage
  BY DEF Joint, Scores
<1>3. pack.items = [k \in KnownTopics(offered) |-> offered[k]]  BY <1>1 DEF Restrict
<1> HIDE DEF pack, offered
<1>4. /\ "alpha_score" \in DOMAIN pack.items <=> Known(a.alpha.value)
      /\ "score_coverage" \in DOMAIN pack.items <=> Known(a.alpha.coverage)
  BY <1>2, <1>3 DEF KnownTopics
<1>5. /\ Known(a.alpha.value) => pack.items["alpha_score"] = a.alpha.value
      /\ Known(a.alpha.coverage) => pack.items["score_coverage"] = a.alpha.coverage
  BY <1>2, <1>3 DEF KnownTopics
<1>6. QED  BY <1>4, <1>5 DEF Has, pack

Notch == [SELL |-> 0, WATCH |-> 1, HOLD |-> 2, BUY |-> 3]

\* One decision.
Measured(d) ==
    /\ Notch[d.action] - Notch[d.numbers.action] \in -1..1
    /\ d.by = "deterministic" => d.action = d.numbers.action
    /\ ~ d.scored => d.action = "WATCH"
    /\ d.conviction = d.numbers.conviction

LEMMA DecisionMeasured ==
    ASSUME NEW n, NEW output
    PROVE  Measured(Decision(n, output))
<1> DEFINE d == Decision(n, output)
           numbers == ScoreBasedAction(Pack(n), Held(n))
           derived == DeriveAction(Pack(n), Held(n), output)
<1>1. /\ d.action = derived.action /\ d.conviction = derived.conviction
      /\ d.by = output.by /\ d.numbers = numbers
      /\ d.scored = Known(run.analyses[n].alpha.value)
  BY DEF Decision
<1>2. /\ derived.action = numbers.action \/ derived.action \in Neighbours[numbers.action]
      /\ derived.conviction = numbers.conviction
      /\ output.by # "llm" => derived.action = numbers.action
      /\ ~ Has(Pack(n), "alpha_score") => derived.action = "WATCH"
  BY WordsAct
<1>3. numbers.action \in {"BUY", "HOLD", "WATCH", "SELL"}  BY NumbersAct
<1>4. Has(Pack(n), "alpha_score") <=> Known(run.analyses[n].alpha.value)
  BY ScoreOffered DEF Pack
<1> HIDE DEF d, numbers, derived
<1>5. Notch[d.action] - Notch[d.numbers.action] \in -1..1
  BY <1>1, <1>2, <1>3 DEF Notch, Neighbours
<1>6. Measured(d)  BY <1>1, <1>2, <1>4, <1>5 DEF Measured
<1> QED  BY <1>6 DEF d

\* A run forgets the decisions of the last one, and its fifth agent adds one.
LEMMA WhoDecides ==
    ASSUME [Next]_vars
    PROVE  \/ UNCHANGED decisions
           \/ decisions' = <<>>
           \/ \E answer : Decide(answer)
<1>1. ASSUME NEW answer, Ask(answer) PROVE UNCHANGED decisions  BY <1>1 DEF Ask
<1>2. ASSUME NEW request, BeginRun(request) PROVE decisions' = <<>>  BY <1>2 DEF BeginRun
<1>3. ASSUME NEW n, OpenPage(n) PROVE UNCHANGED decisions  BY <1>3 DEF OpenPage
<1>4. \/ \E answer : Ask(answer)
      \/ \E request : BeginRun(request)
      \/ \E n : OpenPage(n)
      \/ \E answer : Decide(answer)
      \/ UNCHANGED decisions
  BY DEF Next, vars, Refresh, Score, SkipName, Rank, FailName, EndRun, Exit, Advise, Follow, Order,
         Buy, Fill
<1> QED  BY <1>1, <1>2, <1>3, <1>4

NotchInv == \A n \in DOMAIN decisions : Measured(decisions[n])

LEMMA NotchInvStep == NotchInv /\ [Next]_vars => NotchInv'
<1> SUFFICES ASSUME NotchInv, [Next]_vars, NEW m \in DOMAIN decisions' PROVE Measured(decisions'[m])
  BY DEF NotchInv, Measured
<1>1. CASE UNCHANGED decisions  BY <1>1 DEF NotchInv
<1>2. CASE decisions' = <<>>  BY <1>2
<1>3. ASSUME NEW answer, Decide(answer) PROVE Measured(decisions'[m])
  <2> DEFINE n == Head(run.work)
             d == Decision(n, Output(5, n, answer))
  <2>1. decisions' = Put(decisions, n, d)  BY <1>3 DEF Decide
  <2>2. Measured(d)  BY DecisionMeasured
  <2> HIDE DEF n, d
  <2>3. decisions'[m] = d \/ (m \in DOMAIN decisions /\ decisions'[m] = decisions[m])
    BY <2>1 DEF Put
  <2> QED  BY <2>2, <2>3 DEF NotchInv
<1> QED  BY <1>1, <1>2, <1>3, WhoDecides

\* _derive_action: whatever the language model says, a decision is at most a
\* notch from the one its score implies, and its conviction is the score's.
THEOREM WordsBounded == Spec => []WordsMoveOneNotch
<1>1. Init => NotchInv  BY DEF Init, NotchInv
<1>2. NotchInv => WordsMoveOneNotch  BY DEF NotchInv, Measured, Notch, WordsMoveOneNotch
<1> QED  BY <1>1, <1>2, NotchInvStep, PTL DEF Spec

------------------------------------------------------------------------------
(* The figures of an analysis are numbers, the missing ones too.            *)

\* Sums of the values of a function, and readings carried along a sequence.
Carries == INSTANCE Folding WITH Op <- LAMBDA c, b, x : Carried(c, b, x), Term <- LAMBDA c, x : c[x]
\* Swings joined to clusters.
Joins == INSTANCE Folding WITH Op <- LAMBDA c, b, x : Joined(b, x), Term <- LAMBDA c, x : 0
\* Cash flows forecast, and discounted.
Forecasts == INSTANCE Folding WITH Op <- LAMBDA c, b, y : Forecast(c, b, y), Term <- LAMBDA c, x : 0
Discounts == INSTANCE Folding WITH Op <- LAMBDA c, v, y : Quot(100 * v, 100 + c), Term <- LAMBDA c, x : 0

Sigma(f, S) == Carries!SumFunctionOnSet(f, S)

\* Finite is finite for the lemmas on sums as well.
LEMMA SameFinite == \A S : IsFiniteSet(S) <=> Carries!IsFiniteSet(S)
  BY DEF IsFiniteSet, Carries!IsFiniteSet

\* A function of finitely many values.
LEMMA ImageFinite ==
    ASSUME NEW S, IsFiniteSet(S), NEW f
    PROVE  IsFiniteSet({f[x] : x \in S})
<1> DEFINE g == [x \in S |-> f[x]]
           T == {f[x] : x \in S}
<1>1. g \in Surjection(S, T)  BY DEF Surjection
<1> HIDE DEF g, T
<1>2. IsFiniteSet(T)  BY <1>1, FS_Surjection
<1> QED  BY <1>2 DEF T

\* Sums are the sums that Folding is about.
LEMMA SumsSame == \A f : SumFunction(f) = Sigma(f, DOMAIN f)
  BY DEF Sigma, SumFunction, SumFunctionOnSet, FoldFunctionOnSet,
         MapThenFoldSet, Carries!SumFunctionOnSet, Carries!FoldFunctionOnSet, Carries!MapThenFoldSet

\* The sum of a function of numbers.
LEMMA SumIsInt ==
    ASSUME NEW f, IsFiniteSet(DOMAIN f), \A x \in DOMAIN f : f[x] \in Int
    PROVE  SumFunction(f) \in Int
<1>1. Carries!IsFiniteSet(DOMAIN f)  BY SameFinite
<1>2. Sigma(f, DOMAIN f) \in Int  BY <1>1, Carries!SumInt DEF Sigma
<1> QED  BY <1>2, SumsSame

\* An element of a nonempty set.
LEMMA TheIs == \A e : The({e}) = e
  BY DEF The

LEMMA MinOfTwo ==
    ASSUME NEW a \in Int, NEW b \in Int
    PROVE  Min({a, b}) \in {a, b} /\ Min({a, b}) <= a /\ Min({a, b}) <= b
<1>1. \E x \in {a, b} : \A y \in {a, b} : x <= y
  <2>1. CASE a <= b  BY <2>1
  <2>2. CASE b <= a  BY <2>2
  <2> QED  BY <2>1, <2>2
<1> QED  BY <1>1 DEF Min

LEMMA MaxOfTwo ==
    ASSUME NEW a \in Int, NEW b \in Int
    PROVE  Max({a, b}) \in {a, b} /\ Max({a, b}) >= a /\ Max({a, b}) >= b
<1>1. \E x \in {a, b} : \A y \in {a, b} : x >= y
  <2>1. CASE a >= b  BY <2>1
  <2>2. CASE b >= a  BY <2>2
  <2> QED  BY <2>1, <2>2
<1> QED  BY <1>1 DEF Max

\* A clamped value is on its scale, whatever it was.
LEMMA ClampIn ==
    ASSUME NEW lo \in Int, NEW hi \in Int, lo <= hi, NEW x
    PROVE  Clamp(lo, x, hi) \in lo..hi
  BY DEF Clamp

\* A quotient is a number but for a divisor of zero.
LEMMA QuotInt ==
    ASSUME NEW n \in Int, NEW d \in Int, d # 0
    PROVE  Quot(n, d) \in Int
  BY DEF Quot

LEMMA NAIsInt == NA \in Int
  BY DEF NA

\* The weight of a part: no more than of the whole.
LEMMA TotalIs ==
    ASSUME NEW weights, NEW S, IsFiniteSet(S), NEW R, R \subseteq S,
           \A n \in S : weights[n] \in Nat \ {0}
    PROVE  /\ Total(weights, R) \in Nat /\ Total(weights, S) \in Nat
           /\ Total(weights, R) <= Total(weights, S)
           /\ R # {} => Total(weights, R) > 0
<1>1. \A T : Total(weights, T) = Carries!Summed(weights, T)
  BY DEF Total, Carries!Summed, MapThenSumSet, MapThenFoldSet, Carries!MapThenSumSet,
         Carries!MapThenFoldSet
<1>2. Carries!IsFiniteSet(S) /\ IsFiniteSet(R) /\ Carries!IsFiniteSet(R)  BY FS_Subset, SameFinite
<1>3. \A T : Carries!IsFiniteSet(T) => Carries!Summed(weights, T) = Sigma(weights, T)
  BY Carries!SummedIs DEF Sigma
<1>4. Sigma(weights, S) \in Int /\ Sigma(weights, R) \in Int /\ Sigma(weights, {}) = 0
  BY <1>2, Carries!SumInt, Carries!SumEmpty DEF Sigma
<1>5. ASSUME NEW T, Carries!IsFiniteSet(T), NEW Q, Q \subseteq T, T \subseteq S
      PROVE  Sigma(weights, Q) <= Sigma(weights, T)
  BY <1>5, Carries!SumPart DEF Sigma
<1>6. 0 <= Sigma(weights, R) /\ Sigma(weights, R) <= Sigma(weights, S)
  BY <1>2, <1>4, <1>5
<1>7. ASSUME NEW x \in R PROVE Sigma(weights, R) > 0
  <2>1. IsFiniteSet(R \ {x})  BY <1>2, FS_RemoveElement
  <2>2. Carries!IsFiniteSet(R \ {x})  BY <2>1, SameFinite
  <2>3. Sigma(weights, R) = weights[x] + Sigma(weights, R \ {x})
    BY <1>2, Carries!SumSplits DEF Sigma
  <2>4. 0 <= Sigma(weights, R \ {x})  BY <1>4, <1>5, <2>2
  <2>5. Sigma(weights, R \ {x}) \in Int  BY <2>2, Carries!SumInt DEF Sigma
  <2> QED  BY <2>3, <2>4, <2>5
<1> QED  BY <1>1, <1>2, <1>3, <1>4, <1>6, <1>7

\* build_score: what is published of a score.
LEMMA ScoreIs ==
    ASSUME NEW weights, NEW parts, IsFiniteSet(DOMAIN parts), DOMAIN parts # {},
           \A n \in DOMAIN parts : weights[n] \in Nat \ {0}
    PROVE  LET r == BuildScore(weights, parts)
           IN  /\ r.value \in Int /\ r.coverage \in 0..100
               /\ r.confidence \in Confidences /\ r.parts = parts
<1> DEFINE have == Usable(parts)
           r == BuildScore(weights, parts)
           some == Total(weights, have)
           all == Total(weights, DOMAIN parts)
           mean == Mean(weights, parts)
           grade == ConfidenceFromCoverage(Cardinality(have), Cardinality(DOMAIN parts))
<1>1. /\ r.value \in {Clamp(0, mean, 100), NA} /\ r.coverage = Quot(100 * some, all)
      /\ r.confidence \in {grade, "UNVERIFIED"} /\ r.parts = parts
  BY DEF BuildScore
<1>2. have \subseteq DOMAIN parts  BY DEF Usable
<1>3. grade \in Confidences
  <2>1. IsFiniteSet(have)  BY <1>2, FS_Subset
  <2>2. Cardinality(have) \in Int /\ Cardinality(DOMAIN parts) \in Int
    BY <2>1, FS_CardinalityType
  <2> DEFINE a == Cardinality(have)
             t == Cardinality(DOMAIN parts)
  <2>3. \/ t > 0 /\ 10 * a >= 9 * t
        \/ t > 0 /\ 10 * a < 9 * t /\ 10 * a >= 7 * t
        \/ t > 0 /\ 10 * a < 7 * t /\ 10 * a >= 4 * t
        \/ t <= 0 \/ 10 * a < 4 * t
    BY <2>2
  <2> HIDE DEF a, t, have
  <2>4. ConfidenceFromCoverage(a, t) \in Confidences
    BY <2>3, Zenon DEF ConfidenceFromCoverage, Confidences
  <2> QED  BY <2>4 DEF a, t
<1> HIDE DEF have, r, mean, grade
<1>4. some \in Nat /\ all \in Nat /\ some <= all /\ all > 0
  BY <1>2, TotalIs
<1> HIDE DEF some, all
<1>5. Quot(100 * some, all) \in 0..100  BY <1>4 DEF Quot
<1>6. Clamp(0, mean, 100) \in Int  BY ClampIn
<1> QED  BY <1>1, <1>3, <1>5, <1>6, NAIsInt DEF Confidences, r

\* compute_alpha_score.
LEMMA AlphaIs ==
    ASSUME NEW fundamental, NEW technical, NEW quant, NEW events, NEW risk, NEW sentiment, NEW ages
    PROVE  LET r == ComputeAlphaScore(fundamental, technical, quant, events, risk, sentiment, ages)
           IN  r.value \in Int /\ r.coverage \in 0..100 /\ r.confidence \in Confidences
<1> DEFINE quality == IF "quality" \in DOMAIN fundamental.parts
                      THEN fundamental.parts["quality"] ELSE NA
           parts == [fundamental |-> fundamental.value, technical |-> technical.value,
            quantitative |-> quant.value, catalysts |-> ScoreCatalysts(events).value,
            quality |-> quality, risk |-> ScoreRisk(risk).value,
            sentiment |-> IF sentiment = NA THEN NA ELSE Clamp(0, (sentiment + 100) \div 2, 100)]
           names == {"fundamental", "technical", "quantitative", "catalysts", "quality", "risk",
                     "sentiment"}
<1>1. ComputeAlphaScore(fundamental, technical, quant, events, risk, sentiment, ages)
        = Aged(BuildScore(AlphaWeights, parts), ages)
  BY TheIs DEF ComputeAlphaScore
<1>2. DOMAIN parts = names  OBVIOUS
<1> HIDE DEF parts
<1>3. IsFiniteSet(names)
  <2> DEFINE row == <<"fundamental", "technical", "quantitative", "catalysts", "quality", "risk",
                      "sentiment">>
  <2>0. 1 \in Int /\ 7 \in Int  OBVIOUS
  <2>1. IsFiniteSet(1..7)  BY <2>0, FS_Interval
  <2>2. names = {row[i] : i \in 1..7}  OBVIOUS
  <2> HIDE DEF row
  <2> QED  BY <2>1, <2>2, ImageFinite
<1>4. \A n \in names : AlphaWeights[n] \in Nat \ {0}  BY DEF AlphaWeights
<1> DEFINE s == BuildScore(AlphaWeights, parts)
<1>5. s.value \in Int /\ s.coverage \in 0..100 /\ s.confidence \in Confidences
  <2>1. DOMAIN parts # {} /\ IsFiniteSet(DOMAIN parts)  BY <1>2, <1>3
  <2> QED  BY <1>2, <1>4, <2>1, ScoreIs
<1> HIDE DEF s
<1> QED  BY <1>1, <1>5 DEF Aged, Confidences, s

\* Finitely many numbers have a greatest and a least one.
LEMMA ExtremesExist ==
    ASSUME NEW S, IsFiniteSet(S), S \subseteq Int, S # {}
    PROVE  /\ Max(S) \in S /\ Min(S) \in S
           /\ \A y \in S : Min(S) <= y /\ y <= Max(S)
<1> DEFINE Good(T) == /\ \E x \in T : \A y \in T : x >= y
                      /\ \E x \in T : \A y \in T : x <= y
           B == {T \in SUBSET S : T # {} /\ ~ Good(T)}
<1>1. Good(S)
  <2> SUFFICES ASSUME ~ Good(S) PROVE FALSE  OBVIOUS
  <2>1. PICK T \in B : \A x \in T : T \ {x} \notin B
    <3>1. B \subseteq SUBSET S /\ S \in B  OBVIOUS
    <3> HIDE DEF B
    <3> QED  BY <3>1, SameFinite, Carries!LeastSubset
  <2>2. T # {} /\ T \subseteq S /\ ~ Good(T)  BY <2>1
  <2>3. PICK a \in T : TRUE  BY <2>2
  <2>4. a \in Int  BY <2>2
  <2>5. CASE T = {a}
    <3>1. Good(T)  BY <2>4, <2>5
    <3> QED  BY <2>2, <3>1
  <2>6. CASE T # {a}
    <3>1. T \ {a} # {} /\ T \ {a} \in SUBSET S  BY <2>2, <2>6
    <3>2. T \ {a} \notin B  BY <2>1
    <3>3. Good(T \ {a})  BY <3>1, <3>2
    <3>4. PICK x \in T \ {a} : \A y \in T \ {a} : x >= y  BY <3>3
    <3>5. PICK z \in T \ {a} : \A y \in T \ {a} : z <= y  BY <3>3
    <3>6. x \in Int /\ z \in Int /\ \A y \in T : y \in Int  BY <2>2
    <3>7. \E m \in T : \A y \in T : m >= y
      <4>1. CASE x >= a  BY <2>4, <3>4, <3>6, <4>1
      <4>2. CASE a >= x  BY <2>4, <3>4, <3>6, <4>2
      <4> QED  BY <2>4, <3>6, <4>1, <4>2
    <3>8. \E m \in T : \A y \in T : m <= y
      <4>1. CASE z <= a  BY <2>4, <3>5, <3>6, <4>1
      <4>2. CASE a <= z  BY <2>4, <3>5, <3>6, <4>2
      <4> QED  BY <2>4, <3>6, <4>1, <4>2
    <3> QED  BY <2>2, <3>7, <3>8
  <2> QED  BY <2>5, <2>6
<1>2. /\ Max(S) \in S /\ \A y \in S : Max(S) >= y
      /\ Min(S) \in S /\ \A y \in S : Min(S) <= y
  BY <1>1 DEF Max, Min
<1> QED  BY <1>2

\* Figures by key: the values of a function, finitely many.
Figured(f) == IsFiniteSet(DOMAIN f) /\ \A i \in DOMAIN f : f[i] \in Int

LEMMA RowFigured == ASSUME NEW s \in Seq(Int) PROVE Figured(s)
<1>1. DOMAIN s = 1..Len(s) /\ Len(s) \in Int  OBVIOUS
<1>2. IsFiniteSet(1..Len(s))  BY <1>1, FS_Interval
<1> QED  BY <1>1, <1>2 DEF Figured

\* There is a k-th of k values or more: the greatest has all below it.
LEMMA NthIs ==
    ASSUME NEW values, Figured(values), NEW k \in Nat, k <= Cardinality(DOMAIN values),
           DOMAIN values # {}
    PROVE  Nth(values, k) \in Range(values)
<1> DEFINE R == {values[i] : i \in DOMAIN values}
           upto(v) == {i \in DOMAIN values : values[i] <= v}
           S == {v \in R : Cardinality(upto(v)) >= k}
           top == Max(R)
<1>1. Range(values) = R /\ Nth(values, k) = Min(S)  BY DEF Range, Nth
<1>2. IsFiniteSet(R)  BY ImageFinite DEF Figured
<1>3. R \subseteq Int /\ R # {}  BY DEF Figured
<1> HIDE DEF R
<1>4. top \in R /\ \A y \in R : y <= top  BY <1>2, <1>3, ExtremesExist
<1>5. upto(top) = DOMAIN values  BY <1>4 DEF R
<1> HIDE DEF top, upto
<1>6. top \in S
  <2>1. Cardinality(DOMAIN values) \in Nat  BY FS_CardinalityType DEF Figured
  <2> QED  BY <1>4, <1>5, <2>1
<1>7. S \subseteq R  OBVIOUS
<1> HIDE DEF S
<1>8. Min(S) \in S
  <2>1. IsFiniteSet(S) /\ S \subseteq Int /\ S # {}  BY <1>2, <1>3, <1>6, <1>7, FS_Subset
  <2> QED  BY <2>1, ExtremesExist
<1> QED  BY <1>1, <1>7, <1>8

LEMMA NthInt ==
    ASSUME NEW values, Figured(values), NEW k \in Nat, k <= Cardinality(DOMAIN values),
           DOMAIN values # {}
    PROVE  Nth(values, k) \in Int
  BY NthIs DEF Range, Figured

\* _median.
LEMMA MedianInt ==
    ASSUME NEW values, Figured(values), DOMAIN values # {}
    PROVE  Median(values) \in Int
<1> DEFINE size == Cardinality(DOMAIN values)
           mid == size \div 2
<1>1. size \in Nat /\ size # 0  BY FS_CardinalityType, FS_EmptySet DEF Figured
<1>2. Median(values) = IF size % 2 = 1 THEN Nth(values, mid + 1)
                       ELSE Quot(Nth(values, mid) + Nth(values, mid + 1), 2)
  BY DEF Median
<1> HIDE DEF size
<1>3. mid + 1 \in Nat /\ mid + 1 <= size /\ mid \in Nat /\ mid <= size  BY <1>1
<1> HIDE DEF mid
<1>4. Nth(values, mid + 1) \in Int /\ Nth(values, mid) \in Int  BY <1>3, NthInt DEF size
<1>5. Quot(Nth(values, mid) + Nth(values, mid + 1), 2) \in Int  BY <1>4 DEF Quot
<1> QED  BY <1>2, <1>4, <1>5

\* The last reading, or none.
LEMMA LastValidInt == ASSUME NEW values \in Seq(Int) PROVE LastValid(values) \in Int
<1> DEFINE present == {i \in DOMAIN values : Known(values[i])}
<1>1. LastValid(values) = IF present = {} THEN NA ELSE values[Max(present)]  BY DEF LastValid
<1>2. present \subseteq 1..Len(values) /\ Len(values) \in Int  OBVIOUS
<1> HIDE DEF present
<1>3. ASSUME present # {} PROVE Max(present) \in 1..Len(values)
  <2>1. IsFiniteSet(1..Len(values))  BY <1>2, FS_Interval
  <2>2. IsFiniteSet(present)  BY <1>2, <2>1, FS_Subset, Zenon
  <2>3. present \subseteq Int  BY <1>2
  <2> QED  BY <1>2, <1>3, <2>2, <2>3, ExtremesExist
<1> QED  BY <1>1, <1>3, NAIsInt

Reading == [seed : Seq(Int), now : Int, out : Seq(Int)]

\* A reading carried on stays one.
LEMMA CarriedIs ==
    ASSUME NEW p \in Nat \ {0}, NEW k \in Int, NEW n \in Nat \ {0},
           NEW acc \in Reading, NEW x \in Int
    PROVE  Carried([period |-> p, k |-> k, n |-> n], acc, x) \in Reading
<1> DEFINE c == [period |-> p, k |-> k, n |-> n]
           seed == Append(acc.seed, x)
           now == CASE x = NA -> acc.now
                    [] x # NA /\ acc.now # NA -> acc.now + Quot(k * (x - acc.now), n)
                    [] x # NA /\ acc.now = NA /\ Len(seed) = p -> Quot(SumFunction(seed), p)
                    [] x # NA /\ acc.now = NA /\ Len(seed) # p -> NA
           next == Carried(c, acc, x)
<1>1. acc.seed \in Seq(Int) /\ acc.now \in Int /\ acc.out \in Seq(Int)  BY DEF Reading
<1>2. next = [seed |-> IF x = NA \/ Known(acc.now) THEN acc.seed ELSE seed,
              now |-> now, out |-> Append(acc.out, IF x = NA THEN NA ELSE now)]
  BY DEF Carried
<1>3. seed \in Seq(Int)  BY <1>1
<1> HIDE DEF seed, next
<1>4. Quot(SumFunction(seed), p) \in Int
  <2>1. SumFunction(seed) \in Int  BY <1>3, RowFigured, SumIsInt DEF Figured
  <2> QED  BY <2>1, QuotInt
<1>5. acc.now + Quot(k * (x - acc.now), n) \in Int
  <2>1. k * (x - acc.now) \in Int  BY <1>1
  <2>2. Quot(k * (x - acc.now), n) \in Int  BY <2>1, QuotInt
  <2> QED  BY <1>1, <2>2
<1>6. now \in Int  BY <1>1, <1>4, <1>5, NAIsInt
<1> HIDE DEF now
<1>7. (IF x = NA \/ Known(acc.now) THEN acc.seed ELSE seed) \in Seq(Int)  BY <1>1, <1>3
<1>8. Append(acc.out, IF x = NA THEN NA ELSE now) \in Seq(Int)  BY <1>1, <1>6, NAIsInt
<1>9. next \in Reading  BY <1>2, <1>6, <1>7, <1>8 DEF Reading
<1> QED  BY <1>9 DEF next

\* ema, wilder: a column of readings, from a column of numbers.
LEMMA SmoothedIs ==
    ASSUME NEW p \in Nat \ {0}, NEW k \in Int, NEW n \in Nat \ {0}, NEW values \in Seq(Int)
    PROVE  Smoothed(values, [period |-> p, k |-> k, n |-> n]) \in Seq(Int)
<1> DEFINE c == [period |-> p, k |-> k, n |-> n]
           start == [seed |-> <<>>, now |-> NA, out |-> <<>>]
           folded == Carries!Folded(c, start, values)
<1>1. Smoothed(values, c) = folded.out
  BY DEF Smoothed, Carries!Folded, FoldLeft, MapThenFoldSet, Max,
         Carries!FoldLeft, Carries!MapThenFoldSet, Carries!Max
<1>2. start \in Reading  BY NAIsInt DEF Reading
<1>3. \A b \in Reading, x \in Int : Carried(c, b, x) \in Reading  BY CarriedIs
<1> HIDE DEF c, start
<1>4. folded \in Reading  BY <1>2, <1>3, Carries!FoldedKeeps
<1> HIDE DEF folded
<1> QED  BY <1>1, <1>4 DEF Reading, c

Filed == {"day", "open", "high", "low", "close", "volume"}

\* A column of what is stored of the bars.
LEMMA ColumnIs ==
    ASSUME NEW bars \in Seq(StoredBar), NEW f \in Filed
    PROVE  Column(bars, f) \in Seq(Int) /\ Len(Column(bars, f)) = Len(bars)
<1>1. \A i \in DOMAIN bars : bars[i] \in StoredBar  OBVIOUS
<1>2. \A i \in DOMAIN bars : bars[i][f] \in Int  BY <1>1 DEF StoredBar, Filed
<1>3. Column(bars, f) = [i \in 1..Len(bars) |-> bars[i][f]]  BY DEF Column
<1> QED  BY <1>2, <1>3

LEMMA MaxOfThree ==
    ASSUME NEW a \in Int, NEW b \in Int, NEW c \in Int
    PROVE  Max({a, b, c}) \in Int
<1>1. \E x \in {a, b, c} : \A y \in {a, b, c} : x >= y
  <2>1. CASE a >= b /\ a >= c  BY <2>1
  <2>2. CASE b >= a /\ b >= c  BY <2>2
  <2>3. CASE c >= a /\ c >= b  BY <2>3
  <2> QED  BY <2>1, <2>2, <2>3
<1> QED  BY <1>1 DEF Max

\* atr.
LEMMA AtrInt ==
    ASSUME NEW bars \in Seq(StoredBar), NEW p \in Nat \ {0}
    PROVE  LastValid(Atr(bars, p)) \in Int
<1> DEFINE ranges == TrueRange(bars)
           past(i) == IF i = 1 THEN NA ELSE bars[i - 1].close
           range(i) == CASE bars[i].high = NA \/ bars[i].low = NA -> NA
                         [] bars[i].high # NA /\ bars[i].low # NA /\ past(i) = NA ->
                                bars[i].high - bars[i].low
                         [] bars[i].high # NA /\ bars[i].low # NA /\ past(i) # NA ->
                                Max({bars[i].high - bars[i].low, Magnitude(bars[i].high - past(i)),
                                     Magnitude(bars[i].low - past(i))})
<1>1. ranges = [i \in 1..Len(bars) |-> range(i)]  BY DEF TrueRange
<1>2. ASSUME NEW i \in 1..Len(bars) PROVE range(i) \in Int
  <2> DEFINE h == bars[i].high
             l == bars[i].low
             q == past(i)
             S == {h - l, Magnitude(h - q), Magnitude(l - q)}
  <2>1. h \in Int /\ l \in Int
    <3>1. i \in DOMAIN bars  OBVIOUS
    <3>2. bars[i] \in StoredBar  BY <3>1
    <3> QED  BY <3>2 DEF StoredBar
  <2>2. q \in Int
    <3>1. CASE i = 1  BY <3>1, NAIsInt
    <3>2. CASE i # 1
      <4>1. i - 1 \in DOMAIN bars  BY <3>2
      <4>2. bars[i - 1] \in StoredBar  BY <4>1
      <4> QED  BY <3>2, <4>2 DEF StoredBar
    <3> QED  BY <3>1, <3>2
  <2> HIDE DEF h, l, q
  <2>3. \A x \in Int : Magnitude(x) \in Int  BY DEF Magnitude
  <2>5. h - l \in Int /\ Magnitude(h - q) \in Int /\ Magnitude(l - q) \in Int
    BY <2>1, <2>2, <2>3
  <2>6. Max(S) \in Int  BY <2>5, MaxOfThree
  <2>7. h - l \in Int  BY <2>1
  <2> HIDE DEF S
  <2> QED  BY <2>6, <2>7, NAIsInt DEF h, l, q, S
<1> HIDE DEF ranges, range
<1>3. ranges \in Seq(Int)  BY <1>1, <1>2
<1>4. 1 \in Int  OBVIOUS
<1>5. Smoothed(ranges, [period |-> p, k |-> 1, n |-> p]) \in Seq(Int)  BY <1>3, <1>4, SmoothedIs
<1>6. Atr(bars, p) \in Seq(Int)  BY <1>5 DEF Atr, Wilder, ranges
<1> QED  BY <1>6, LastValidInt

Clustered == Seq(Seq(Int) \ {<<>>})

\* A swing joins a cluster or begins one: no cluster is empty.
LEMMA JoinedIs ==
    ASSUME NEW clusters \in Clustered, NEW x \in Int
    PROVE  Joined(clusters, x) \in Clustered
<1> DEFINE c == Last(clusters)
<1>1. \/ clusters # <<>> /\ Joined(clusters, x) = Append(Front(clusters), Append(c, x))
      \/ Joined(clusters, x) = Append(clusters, <<x>>)
  BY DEF Joined
<1>2. <<x>> \in Seq(Int) \ {<<>>}  OBVIOUS
<1>3. CASE clusters # <<>>
  <2>1. Len(clusters) \in 1..Len(clusters)  BY <1>3 DEF Clustered
  <2>2. c \in Seq(Int) \ {<<>>}  BY <2>1 DEF Last, Clustered
  <2>3. Front(clusters) \in Clustered  BY <1>3 DEF Front, Clustered
  <2> HIDE DEF c
  <2>4. Append(c, x) \in Seq(Int) \ {<<>>}  BY <2>2
  <2>5. Append(Front(clusters), Append(c, x)) \in Clustered  BY <2>3, <2>4 DEF Clustered
  <2>6. Append(clusters, <<x>>) \in Clustered  BY <1>2 DEF Clustered
  <2> QED  BY <1>1, <2>5, <2>6
<1>4. CASE clusters = <<>>
  <2>1. Append(clusters, <<x>>) \in Clustered  BY <1>2 DEF Clustered
  <2> QED  BY <1>1, <1>4, <2>1
<1> QED  BY <1>3, <1>4

\* Levels are centres of clusters of swings: finitely many numbers.
LEMMA StrongestIs ==
    ASSUME NEW levels, Figured(levels)
    PROVE  IsFiniteSet(Strongest(levels)) /\ Strongest(levels) \subseteq Int
<1> DEFINE row == Ordered(levels)
           clusters == Clusters(levels)
           kept == {i \in DOMAIN clusters :
                      Cardinality({j \in DOMAIN clusters :
                            \/ Len(clusters[j]) > Len(clusters[i])
                            \/ Len(clusters[j]) = Len(clusters[i]) /\ j < i}) < 3}
           centre == [i \in kept |-> Quot(SumFunction(clusters[i]), Len(clusters[i]))]
<1>1. row \in Seq(Int)
  <2> DEFINE size == Cardinality(DOMAIN levels)
  <2>1. size \in Nat  BY FS_CardinalityType DEF Figured
  <2>2. row = [k \in 1..size |-> Nth(levels, k)]  BY DEF Ordered
  <2>3. size > 0 => DOMAIN levels # {}  BY FS_EmptySet
  <2> HIDE DEF row
  <2>4. ASSUME NEW k \in 1..size PROVE Nth(levels, k) \in Int
    <3>1. k \in Nat /\ k <= size /\ DOMAIN levels # {}  BY <2>1, <2>3
    <3> QED  BY <3>1, NthInt
  <2> HIDE DEF size
  <2> QED  BY <2>1, <2>2, <2>4
<1>2. clusters = Joins!Folded(0, <<>>, row)
  BY DEF Clusters, Joins!Folded, FoldLeft, MapThenFoldSet, Max,
         Joins!FoldLeft, Joins!MapThenFoldSet, Joins!Max
<1>3. clusters \in Clustered
  <2>1. <<>> \in Clustered  BY DEF Clustered
  <2>2. \A b \in Clustered, x \in Int : Joined(b, x) \in Clustered  BY JoinedIs
  <2> HIDE DEF row, clusters
  <2> QED  BY <1>1, <1>2, <2>1, <2>2, Joins!FoldedKeeps
<1>4. Strongest(levels) = {centre[i] : i \in kept}  BY DEF Strongest
<1> HIDE DEF row, clusters
<1>5. IsFiniteSet(kept)
  <2>1. DOMAIN clusters = 1..Len(clusters) /\ Len(clusters) \in Int  BY <1>3 DEF Clustered
  <2>2. IsFiniteSet(DOMAIN clusters)
    <3>1. 1 \in Int  OBVIOUS
    <3> QED  BY <2>1, <3>1, FS_Interval
  <2>3. kept \in SUBSET DOMAIN clusters  OBVIOUS
  <2> HIDE DEF kept
  <2> QED  BY <2>2, <2>3, FS_Subset
<1>6. kept \subseteq DOMAIN clusters  OBVIOUS
<1> HIDE DEF kept
<1>7. ASSUME NEW i \in kept PROVE centre[i] \in Int
  <2>1. clusters[i] \in Seq(Int) /\ clusters[i] # <<>>  BY <1>3, <1>6 DEF Clustered
  <2>2. Len(clusters[i]) \in Int /\ Len(clusters[i]) # 0  BY <2>1
  <2>3. SumFunction(clusters[i]) \in Int  BY <2>1, RowFigured, SumIsInt DEF Figured
  <2> QED  BY <2>2, <2>3, QuotInt
<1> HIDE DEF centre
<1>8. IsFiniteSet({centre[i] : i \in kept})  BY <1>5, ImageFinite
<1> QED  BY <1>4, <1>7, <1>8

\* support_resistance.
LEMMA LevelsAre ==
    ASSUME NEW bars \in Seq(StoredBar), NEW wing \in Nat
    PROVE  LET sr == SupportResistance(bars, wing)
           IN  /\ IsFiniteSet(sr.supports \cup sr.resistances)
               /\ sr.supports \cup sr.resistances \subseteq Int
<1> DEFINE highs == Column(bars, "high")
           lows == Column(bars, "low")
           last == LastValid(Column(bars, "close"))
           above == {i \in Swings(highs, wing, Max) : highs[i] > last}
           below == {i \in Swings(lows, wing, Min) : lows[i] < last}
           up == [i \in above |-> highs[i]]
           down == [i \in below |-> lows[i]]
           sr == SupportResistance(bars, wing)
<1>1. /\ sr.supports \in {{}, Strongest(down)} /\ sr.resistances \in {{}, Strongest(up)}
  BY DEF SupportResistance
<1>2. highs \in Seq(Int) /\ lows \in Seq(Int)  BY ColumnIs DEF Filed
<1>3. above \in SUBSET DOMAIN highs
  BY <1>2 DEF Swings
<1>4. below \in SUBSET DOMAIN lows
  BY <1>2 DEF Swings
<1> HIDE DEF highs, lows, above, below, sr
<1>5. IsFiniteSet(DOMAIN highs) /\ IsFiniteSet(DOMAIN lows)  BY <1>2, RowFigured DEF Figured
<1>6. IsFiniteSet(above) /\ IsFiniteSet(below)  BY <1>3, <1>4, <1>5, FS_Subset, Zenon
<1>7. Figured(up) /\ Figured(down)
  <2>1. \A i \in above : up[i] \in Int  BY <1>2, <1>3
  <2>2. \A i \in below : down[i] \in Int  BY <1>2, <1>4
  <2> QED  BY <1>6, <2>1, <2>2 DEF Figured
<1> HIDE DEF up, down
<1>8. /\ IsFiniteSet(Strongest(up)) /\ Strongest(up) \subseteq Int
      /\ IsFiniteSet(Strongest(down)) /\ Strongest(down) \subseteq Int
  BY <1>7, StrongestIs
<1>9. IsFiniteSet({})  BY FS_EmptySet
<1>10. /\ IsFiniteSet(sr.supports) /\ sr.supports \subseteq Int
       /\ IsFiniteSet(sr.resistances) /\ sr.resistances \subseteq Int
  BY <1>1, <1>8, <1>9
<1>11. IsFiniteSet(sr.supports \cup sr.resistances)  BY <1>10, FS_Union
<1> QED  BY <1>10, <1>11 DEF sr

\* The average traded value, from the bars that have a volume.
LEMMA TurnoverInt == ASSUME NEW bars \in Seq(StoredBar) PROVE Turnover(bars) \in Int
<1> DEFINE traded == {i \in DOMAIN bars : Known(bars[i].close) /\ Known(bars[i].volume)}
           f == [i \in traded |-> bars[i].close * bars[i].volume]
<1>1. Turnover(bars) = IF traded = {} THEN NA ELSE SumFunction(f) \div Cardinality(traded)
  BY DEF Turnover
<1>2. DOMAIN bars = 1..Len(bars) /\ Len(bars) \in Int /\ 1 \in Int  OBVIOUS
<1>3. IsFiniteSet(DOMAIN bars)  BY <1>2, FS_Interval
<1>4. traded \in SUBSET DOMAIN bars  OBVIOUS
<1>5. \A i \in traded : f[i] \in Int
  <2>1. \A i \in DOMAIN bars : bars[i] \in StoredBar  OBVIOUS
  <2>2. \A i \in traded : bars[i].close \in Int /\ bars[i].volume \in Int  BY <2>1 DEF StoredBar
  <2> QED  BY <2>2
<1>6. DOMAIN f = traded  OBVIOUS
<1> HIDE DEF traded, f
<1>7. IsFiniteSet(traded)  BY <1>3, <1>4, FS_Subset
<1>8. SumFunction(f) \in Int  BY <1>5, <1>6, <1>7, SumIsInt
<1>9. traded # {} => Cardinality(traded) \in Nat \ {0}
  BY <1>7, FS_CardinalityType, FS_EmptySet
<1> QED  BY <1>1, <1>8, <1>9, NAIsInt

\* What is read off the bars.
LEMMA TechnicalIs ==
    ASSUME NEW d, d.bars \in Seq(StoredBar), d.volatility \in Int, NEW benchmark
    PROVE  LET t == Technical(d, benchmark)
           IN  /\ t.volatility \in Int /\ t.atr \in Int
               /\ IsFiniteSet(t.supports \cup t.resistances)
               /\ t.supports \cup t.resistances \subseteq Int
<1> DEFINE t == Technical(d, benchmark)
<1>1. PICK row : t = AnalyzeTechnical(d.bars, row, d.volatility)  BY DEF Technical
<1> DEFINE s == Snapshot(d.bars, row, d.volatility)
           sr == SupportResistance(d.bars, Wing)
<1>2. t = IF Len(d.bars) < MinBars THEN NoRead ELSE Assessed(s, d.bars)
  BY <1>1, TheIs DEF AnalyzeTechnical
<1>3. /\ s.atr = LastValid(Atr(d.bars, RsiWindow)) /\ s.volatility = d.volatility
      /\ s.supports = sr.supports /\ s.resistances = sr.resistances
  BY DEF Snapshot
<1>4. RsiWindow \in Nat \ {0} /\ Wing \in Nat  BY WindowAssumption
<1>5. LastValid(Atr(d.bars, RsiWindow)) \in Int  BY <1>4, AtrInt
<1>6. IsFiniteSet(sr.supports \cup sr.resistances) /\ sr.supports \cup sr.resistances \subseteq Int
  BY <1>4, LevelsAre
<1> HIDE DEF t, s, sr
<1>7. CASE t = NoRead
  <2>1. t.volatility = NA /\ t.atr = NA /\ t.supports \cup t.resistances = {}
    BY <1>7 DEF NoRead
  <2> QED  BY <2>1, NAIsInt, FS_EmptySet DEF t
<1>8. CASE t = Assessed(s, d.bars)
  <2>1. /\ t.volatility = s.volatility /\ t.atr = s.atr
        /\ t.supports = s.supports /\ t.resistances = s.resistances
    BY <1>8 DEF Assessed
  <2> QED  BY <1>3, <1>5, <1>6, <2>1 DEF t
<1> QED  BY <1>2, <1>7, <1>8

------------------------------------------------------------------------------
(* The metrics of a name, and of its peers.                                *)

LEMMA PairFinite == \A a, b : IsFiniteSet({a, b})
<1> TAKE a, b
<1>1. {a, b} = {a} \cup {b}  OBVIOUS
<1>2. IsFiniteSet({a}) /\ IsFiniteSet({b})  BY FS_Singleton
<1> QED  BY <1>1, <1>2, FS_Union

\* _detect_scale.
LEMMA ScaleInt == \A cap, revenue, equity : DetectScale(cap, revenue, equity) \in Int
<1> TAKE cap, revenue, equity
<1> DEFINE reference == IF Known(revenue) /\ revenue > 0 THEN revenue ELSE equity
           fits == {f \in Units : 50 * cap >= reference * f /\ (cap + 499) \div 500 <= reference * f}
           none == cap = NA \/ cap <= 0 \/ reference = NA \/ reference <= 0 \/ fits = {}
<1>1. DetectScale(cap, revenue, equity) = IF none THEN 1 ELSE Min(fits)  BY DEF DetectScale
<1>2. PICK a \in Int, b \in Int : Units = {a, b}  BY SMT DEF Units
<1>3. IsFiniteSet(Units) /\ Units \subseteq Int  BY <1>2, PairFinite, Zenon
<1>4. fits \in SUBSET Units  OBVIOUS
<1>5. ~ none => fits # {}  OBVIOUS
<1> HIDE DEF fits, none
<1>6. IsFiniteSet(fits) /\ fits \subseteq Int  BY <1>3, <1>4, FS_Subset, Zenon
<1>7. ~ none => Min(fits) \in Int  BY <1>5, <1>6, ExtremesExist
<1> QED  BY <1>1, <1>7

\* compute_metrics: the multiples and the growth a valuation starts from.
LEMMA MetricsAre ==
    ASSUME NEW periods \in Seq(StoredStatement), periods # <<>>,
           NEW price \in Int, NEW shares \in Int
    PROVE  LET m == ComputeMetrics(periods, price, shares)
           IN  /\ {m.pe, m.pb, m.fcf_growth, m.revenue_growth} \subseteq Int
               /\ "pe" \in DOMAIN m /\ "pb" \in DOMAIN m
<1> DEFINE m == ComputeMetrics(periods, price, shares)
           s == periods[1]
           cap == IF price \in {0, NA} \/ shares \in {0, NA} THEN NA ELSE price * shares
           scale == DetectScale(cap, s.revenue, s.equity)
           own == IF Known(s.equity) THEN scale * s.equity ELSE NA
           grown(f) == IF Len(periods) < 2 THEN NA ELSE SafeGrowth(s[f], periods[2][f])
<1>1. /\ m.revenue_growth = grown("revenue") /\ m.fcf_growth = grown("fcf")
      /\ m.pe = Withhold("pe", PositiveDiv(price, s.eps))
      /\ m.pb = Withhold("pb", PositiveDiv(cap, own))
      /\ "pe" \in DOMAIN m /\ "pb" \in DOMAIN m
  BY DEF ComputeMetrics
<1>2. /\ s \in StoredStatement
      /\ Len(periods) >= 2 => periods[2] \in StoredStatement
  <2>1. 1 \in DOMAIN periods  OBVIOUS
  <2>2. Len(periods) >= 2 => 2 \in DOMAIN periods  OBVIOUS
  <2> QED  BY <2>1, <2>2
<1>3. cap \in Int  BY NAIsInt
<1>4. {s.revenue, s.equity, s.eps, s.fcf} \subseteq Int  BY <1>2 DEF StoredStatement
<1>5. Len(periods) \in Nat  OBVIOUS
<1>6. \A f \in {"revenue", "fcf"} : Len(periods) >= 2 => periods[2][f] \in Int
  BY <1>2 DEF StoredStatement
<1>7. s["revenue"] \in Int /\ s["fcf"] \in Int  BY <1>4
<1> HIDE DEF m, s, cap
<1>8. scale \in Int  BY ScaleInt DEF scale
<1> HIDE DEF scale
<1>9. own \in Int  BY <1>4, <1>8, NAIsInt
<1> HIDE DEF own
<1>10. \A a, b \in Int : SafeDiv(a, b) \in Int
  <2> TAKE a, b \in Int
  <2>1. b # 0 => Quot(100 * a, b) \in Int  BY QuotInt
  <2> QED  BY <2>1, NAIsInt DEF SafeDiv
<1>11. \A a, b \in Int : PositiveDiv(a, b) \in Int  BY <1>10, NAIsInt DEF PositiveDiv
<1>12. \A name, x : Withhold(name, x) \in {x, NA}  BY DEF Withhold
<1>13. PositiveDiv(price, s.eps) \in Int /\ PositiveDiv(cap, own) \in Int
  BY <1>3, <1>4, <1>9, <1>11
<1>14. m.pe \in Int /\ m.pb \in Int  BY <1>1, <1>12, <1>13, NAIsInt
<1>15. \A a, b \in Int : SafeGrowth(a, b) \in Int
  <2> TAKE a, b \in Int
  <2>1. 100 * (a - b) \in Int  OBVIOUS
  <2>2. b > 0 => Quot(100 * (a - b), b) \in Int  BY <2>1, QuotInt
  <2> QED  BY <2>2, NAIsInt DEF SafeGrowth
<1>16. ASSUME NEW f \in {"revenue", "fcf"} PROVE grown(f) \in Int
  <2>1. CASE Len(periods) < 2  BY <2>1, NAIsInt
  <2>2. CASE Len(periods) >= 2
    <3>1. s[f] \in Int /\ periods[2][f] \in Int  BY <1>6, <1>7, <2>2
    <3>2. SafeGrowth(s[f], periods[2][f]) \in Int  BY <1>15, <3>1
    <3> QED  BY <1>5, <2>2, <3>2
  <2> QED  BY <1>5, <2>1, <2>2
<1>17. m.revenue_growth \in Int /\ m.fcf_growth \in Int  BY <1>1, <1>16
<1> QED  BY <1>1, <1>14, <1>17 DEF m

\* What is stored of a name.
Stored(d) ==
    /\ d.bars \in Seq(StoredBar) /\ d.statements \in Seq(StoredStatement)
    /\ d.history \in Seq(Int) /\ d.shares \in Int /\ d.volatility \in Int

LEMMA UniverseStored ==
    ASSUME NEW u \in Universes
    PROVE  IsFiniteSet(DOMAIN u) /\ \A n \in DOMAIN u : Stored(u[n])
  BY DeskAssumption DEF Stored

LEMMA LastCloseInt == ASSUME NEW d, Stored(d) PROVE LastClose(d) \in Int
<1>1. Column(d.bars, "close") \in Seq(Int)  BY ColumnIs DEF Stored, Filed
<1> QED  BY <1>1, LastValidInt, NAIsInt DEF LastClose

\* The fundamental engine.
Analyzed(d, f) ==
    /\ f.insufficient \in BOOLEAN
    /\ f.insufficient => DOMAIN f.metrics = {}
    /\ ~ f.insufficient =>
          /\ d.statements # <<>>
          /\ {f.metrics.pe, f.metrics.pb, f.metrics.fcf_growth, f.metrics.revenue_growth} \subseteq Int

LEMMA FundamentalIs ==
    ASSUME NEW d, Stored(d), NEW peers, NEW history, NEW catalysts
    PROVE  Analyzed(d, AnalyzeFundamentals(d.statements, LastClose(d), d.shares, peers, history, catalysts))
<1> DEFINE f == AnalyzeFundamentals(d.statements, LastClose(d), d.shares, peers, history, catalysts)
           m == ComputeMetrics(d.statements, LastClose(d), d.shares)
<1>1. CASE d.statements = <<>>
  <2>1. f.insufficient = TRUE /\ f.metrics = <<>>  BY <1>1 DEF AnalyzeFundamentals
  <2>2. DOMAIN f.metrics = {}  BY <2>1
  <2> QED  BY <2>1, <2>2 DEF Analyzed
<1>2. CASE d.statements # <<>>
  <2> DEFINE result(x) == [insufficient |-> FALSE, metrics |-> x,
                           score |-> ScoreFundamentals(x, peers, history, catalysts)]
  <2>1. f = The({result(x) : x \in {m}})  BY <1>2 DEF AnalyzeFundamentals
  <2>2. {result(x) : x \in {m}} = {result(m)}
    <3> HIDE DEF result
    <3> QED  OBVIOUS
  <2>3. f.insufficient = FALSE /\ f.metrics = m
    <3>1. f = result(m)  BY <2>1, <2>2, TheIs
    <3> QED  BY <3>1
  <2>4. {m.pe, m.pb, m.fcf_growth, m.revenue_growth} \subseteq Int
    BY <1>2, LastCloseInt, MetricsAre DEF Stored
  <2> HIDE DEF f, m
  <2>5. Analyzed(d, f)  BY <1>2, <2>3, <2>4 DEF Analyzed
  <2> QED  BY <2>5 DEF f
<1> QED  BY <1>1, <1>2

\* The metrics the multiples of peers are taken from.
LEMMA UniverseMetricsAre ==
    ASSUME NEW u \in Universes, NEW t \in DOMAIN u
    PROVE  UniverseMetrics(u)[t].pe \in Int /\ UniverseMetrics(u)[t].pb \in Int
<1> DEFINE tech == Technical(u[t], <<>>)
           m == Alone(u[t])
           metric(f) == IF f \in DOMAIN m THEN m[f] ELSE NA
<1>1. UniverseMetrics(u)[t] = FactorMetrics(u[t], tech, m)
  <2> DEFINE S == {FactorMetrics(u[t], x, y) : x \in {tech}, y \in {m}}
  <2>1. UniverseMetrics(u)[t] = The(S)  BY DEF UniverseMetrics
  <2>2. S = {FactorMetrics(u[t], tech, m)}  OBVIOUS
  <2> HIDE DEF S
  <2> QED  BY <2>1, <2>2, TheIs
<1>2. PICK f : Analyzed(u[t], f) /\ m = f.metrics
  BY UniverseStored, FundamentalIs DEF Alone
<1> HIDE DEF tech, m
<1>3. UniverseMetrics(u)[t].pe = metric("pe") /\ UniverseMetrics(u)[t].pb = metric("pb")
  BY <1>1 DEF FactorMetrics
<1>4. "pe" \in DOMAIN m => m["pe"] \in Int  BY <1>2 DEF Analyzed
<1>5. "pb" \in DOMAIN m => m["pb"] \in Int  BY <1>2 DEF Analyzed
<1> QED  BY <1>3, <1>4, <1>5, NAIsInt

\* The multiples of the peers: figures, or none.
LEMMA PeersAre ==
    ASSUME NEW u \in Universes, NEW n \in DOMAIN u, NEW key \in {"pe", "pb"}
    PROVE  Figured(PeerMetrics(u, UniverseMetrics(u), n, key))
<1> DEFINE metrics == UniverseMetrics(u)
           peers == {t \in DOMAIN u \ {n} : u[t].sector = u[n].sector}
           valued == {t \in peers : Known(metrics[t][key])}
           some == [t \in valued |-> metrics[t][key]]
           p == PeerMetrics(u, metrics, n, key)
<1>1. p = <<>> \/ p = some  BY DEF PeerMetrics
<1>2. \A t \in DOMAIN u : metrics[t][key] \in Int  BY UniverseMetricsAre
<1>3. valued \in SUBSET DOMAIN u  OBVIOUS
<1> HIDE DEF metrics, valued
<1>4. IsFiniteSet(valued)  BY <1>3, UniverseStored, FS_Subset
<1>5. Figured(some)  BY <1>2, <1>3, <1>4 DEF Figured
<1>6. Figured(<<>>)
  <2>1. <<>> \in Seq(Int)  OBVIOUS
  <2> QED  BY <2>1, RowFigured
<1> HIDE DEF p, some
<1>7. Figured(p)  BY <1>1, <1>5, <1>6
<1> QED  BY <1>7 DEF p, metrics

\* analyze_stock: what the desk reads of an analysis.
FiguresOf(d, a) ==
    /\ a.alpha.value \in Int /\ a.alpha.coverage \in 0..100 /\ a.alpha.confidence \in Confidences
    /\ a.turnover \in Int
    /\ a.technical.volatility \in Int /\ a.technical.atr \in Int
    /\ IsFiniteSet(a.technical.supports \cup a.technical.resistances)
    /\ a.technical.supports \cup a.technical.resistances \subseteq Int
    /\ Analyzed(d, a.fundamental)
    /\ Figured(a.peers.pe) /\ Figured(a.peers.pb)

LEMMA FiguresAreNumbers ==
    ASSUME NEW u \in Universes, NEW n \in DOMAIN u
    PROVE  FiguresOf(u[n], Analysed[u][n])
<1> DEFINE d == u[n]
           metrics == UniverseMetrics(u)
           peers(key) == PeerMetrics(u, metrics, n, key)
           technical == Technical(d, Benchmark)
           fundamental == AnalyzeFundamentals(d.statements, LastClose(d), d.shares,
                              peers("pe"), d.history, ScoreCatalysts(d.events).value)
           quant == ScoreQuant(metrics, n)
           multiples == [pe |-> peers("pe"), pb |-> peers("pb")]
           a == Combined(d, technical, fundamental, quant, multiples)
<1>1. Analysed[u][n] = AnalyzeStock(u, metrics, n, Benchmark)  BY DEF Analysed, Metrics
<1>2. AnalyzeStock(u, metrics, n, Benchmark) = a
  <2> DEFINE S == {Combined(d, x, y, z, multiples) :
                    x \in {technical}, y \in {fundamental}, z \in {quant}}
  <2>1. AnalyzeStock(u, metrics, n, Benchmark) = The(S)  BY DEF AnalyzeStock
  <2> HIDE DEF technical, fundamental, quant, multiples, d
  <2>2. S = {a}  OBVIOUS
  <2> HIDE DEF S, a
  <2> QED  BY <2>1, <2>2, TheIs
<1>3. Stored(d)  BY UniverseStored
<1>4. Figured(multiples.pe) /\ Figured(multiples.pb)  BY PeersAre
<1>5. Analyzed(d, fundamental)  BY <1>3, FundamentalIs
<1>6. /\ technical.volatility \in Int /\ technical.atr \in Int
      /\ IsFiniteSet(technical.supports \cup technical.resistances)
      /\ technical.supports \cup technical.resistances \subseteq Int
  BY <1>3, TechnicalIs DEF Stored
<1>7. Turnover(d.bars) \in Int  BY <1>3, TurnoverInt DEF Stored
<1> HIDE DEF technical, fundamental, quant, multiples, metrics, d
<1>8. \E risk, ages : a.alpha = ComputeAlphaScore(fundamental.score, technical.score, quant, d.events,
                                                  risk, d.sentiment, ages)
  BY DEF Combined
<1>9. a.alpha.value \in Int /\ a.alpha.coverage \in 0..100 /\ a.alpha.confidence \in Confidences
  BY <1>8, AlphaIs
<1>10. /\ a.technical = technical /\ a.fundamental = fundamental /\ a.peers = multiples
       /\ a.turnover = Turnover(d.bars)
  BY DEF Combined
<1> HIDE DEF a
<1>11. FiguresOf(d, a)  BY <1>4, <1>5, <1>6, <1>7, <1>9, <1>10 DEF FiguresOf
<1> QED  BY <1>1, <1>2, <1>11 DEF d

------------------------------------------------------------------------------
(* The page.                                                               *)

\* A mean of what is between two bounds is between them.
LEMMA DivWithin ==
    ASSUME NEW n \in Nat \ {0}, NEW s \in Int, NEW lo \in Int, NEW hi \in Int,
           lo * n <= s, s <= hi * n
    PROVE  s \div n \in lo..hi
<1>1. PICK q \in Int : q = s \div n  OBVIOUS
<1>2. q * n <= s /\ s < q * n + n  BY <1>1
<1>3. ASSUME q < lo PROVE FALSE
  <2>1. (q + 1) * n <= lo * n  BY <1>3
  <2>2. (q + 1) * n = q * n + n  OBVIOUS
  <2> QED  BY <1>2, <2>1, <2>2
<1>4. ASSUME q > hi PROVE FALSE
  <2>1. (hi + 1) * n <= q * n  BY <1>4
  <2>2. (hi + 1) * n = hi * n + n  OBVIOUS
  <2> QED  BY <1>2, <2>1, <2>2
<1> QED  BY <1>1, <1>3, <1>4

\* The sum of numbers between two bounds.
LEMMA SumWithin ==
    ASSUME NEW f, NEW S, IsFiniteSet(S), NEW lo \in Int, NEW hi \in Int,
           \A x \in S : f[x] \in lo..hi
    PROVE  /\ Cardinality(S) \in Nat /\ Sigma(f, S) \in Int
           /\ lo * Cardinality(S) <= Sigma(f, S) /\ Sigma(f, S) <= hi * Cardinality(S)
<1> DEFINE Good(T) == /\ lo * Cardinality(T) <= Sigma(f, T)
                      /\ Sigma(f, T) <= hi * Cardinality(T)
           B == {T \in SUBSET S : ~ Good(T)}
<1>1. \A T \in SUBSET S : IsFiniteSet(T) /\ Cardinality(T) \in Nat
  BY FS_Subset, FS_CardinalityType
<1>2. \A T \in SUBSET S : Sigma(f, T) \in Int
  BY <1>1, SameFinite, Carries!SumInt DEF Sigma
<1>3. Good(S)
  <2> SUFFICES ASSUME ~ Good(S) PROVE FALSE  OBVIOUS
  <2>1. PICK T \in B : \A x \in T : T \ {x} \notin B
    <3>1. B \subseteq SUBSET S /\ S \in B  OBVIOUS
    <3> HIDE DEF B
    <3> QED  BY <3>1, SameFinite, Carries!LeastSubset
  <2>2. T \in SUBSET S /\ ~ Good(T)  BY <2>1
  <2>3. T # {}
    <3>1. Cardinality({}) = 0 /\ Sigma(f, {}) = 0  BY FS_EmptySet, Carries!SumEmpty DEF Sigma
    <3>2. Good({})  BY <3>1
    <3> QED  BY <2>2, <3>2
  <2>4. PICK x \in T : TRUE  BY <2>3
  <2>5. T \ {x} \in SUBSET S /\ Good(T \ {x})  BY <2>1, <2>2, <2>4
  <2>6. Cardinality(T \ {x}) = Cardinality(T) - 1  BY <1>1, <2>2, FS_RemoveElement
  <2>7. Sigma(f, T) = f[x] + Sigma(f, T \ {x})
    <3>1. \A y \in T : f[y] \in Int  BY <2>2
    <3>2. Carries!IsFiniteSet(T)  BY <1>1, <2>2, SameFinite
    <3> QED  BY <3>1, <3>2, Carries!SumSplits DEF Sigma
  <2>8. f[x] \in lo..hi  BY <2>2
  <2> DEFINE k == Cardinality(T)
             v == Sigma(f, T \ {x})
             e == f[x]
  <2>9. k \in Nat /\ v \in Int  BY <1>1, <1>2, <2>2, <2>5
  <2>10. lo * (k - 1) <= v /\ v <= hi * (k - 1) /\ Sigma(f, T) = e + v /\ e \in lo..hi
    BY <2>5, <2>6, <2>7, <2>8
  <2> HIDE DEF k, v, e
  <2>11. lo * (k - 1) = lo * k - lo /\ hi * (k - 1) = hi * k - hi  BY <2>9
  <2>12. lo * k \in Int /\ hi * k \in Int  BY <2>9
  <2>13. lo * k <= e + v /\ e + v <= hi * k  BY <2>9, <2>10, <2>11, <2>12
  <2>14. Good(T)  BY <2>10, <2>13 DEF k
  <2> QED  BY <2>2, <2>14
<1> QED  BY <1>1, <1>2, <1>3

\* What a page may publish of a valuation.
Grounded(v) ==
    Known(v.fair) => v.fair \in v.low..v.high /\ 2 * v.high <= 5 * v.low

\* blended_valuation: the figure is a mean of methods that agree.
LEMMA BlendGrounded ==
    ASSUME NEW dcf, dcf = NA \/ dcf \in Nat \ {0}, NEW multiples, Figured(multiples)
    PROVE  Grounded(BlendedValuation(dcf, multiples))
<1> DEFINE usable == {m \in DOMAIN multiples : Known(multiples[m]) /\ multiples[m] > 0}
           n == Cardinality(usable)
           some == {multiples[m] : m \in usable}
           own == IF Known(dcf) THEN {dcf} ELSE {}
           values == some \cup own
           methods == n + (IF Known(dcf) THEN 1 ELSE 0)
           total == MapThenSumSet(LAMBDA m : multiples[m], usable)
           each == Quot(total, Max({n, 1}))
           fair == CASE n = 0 -> dcf
                     [] n > 0 /\ dcf = NA -> each
                     [] n > 0 /\ Known(dcf) -> Quot(40 * dcf + 60 * each, 100)
           low == Min(values)
           high == Max(values)
           torn == methods > 1 /\ 2 * high > 5 * low
           v == BlendedValuation(dcf, multiples)
<1>1. v = IF values = {} THEN Unvalued
          ELSE [fair |-> IF torn THEN NA ELSE fair, low |-> low, high |-> high,
                methods |-> methods, withheld |-> torn]
  BY DEF BlendedValuation
<1>2. IsFiniteSet(usable) /\ n \in Nat
  <2>1. usable \in SUBSET DOMAIN multiples  OBVIOUS
  <2> QED  BY <2>1, FS_Subset, FS_CardinalityType DEF Figured
<1>3. \A m \in usable : multiples[m] \in Nat \ {0}  BY DEF Figured
<1>4. total = Sigma(multiples, usable)
  <2>1. total = Carries!Summed(multiples, usable)
    BY DEF Carries!Summed, MapThenSumSet, MapThenFoldSet, Carries!MapThenSumSet,
           Carries!MapThenFoldSet
  <2>2. Carries!IsFiniteSet(usable)  BY <1>2, SameFinite
  <2> HIDE DEF total, usable
  <2> QED  BY <2>1, <2>2, Carries!SummedIs DEF Sigma
<1>5. n = 0 <=> usable = {}  BY <1>2, FS_EmptySet
<1> HIDE DEF v, total
<1>6. CASE values = {}
  <2>1. v.fair = NA  BY <1>1, <1>6 DEF Unvalued
  <2> QED  BY <2>1 DEF Grounded, Known, v
<1>7. CASE values # {}
  <2>1. \A m \in usable : multiples[m] \in some  OBVIOUS
  <2>2. IsFiniteSet(values)
    <3>1. IsFiniteSet(some)  BY <1>2, ImageFinite
    <3>2. IsFiniteSet(own)  BY FS_EmptySet, FS_Singleton
    <3> HIDE DEF some, own
    <3> QED  BY <3>1, <3>2, FS_Union
  <2>3. values \subseteq Nat \ {0}  BY <1>3 DEF Known
  <2>4. Known(dcf) => dcf \in values  OBVIOUS
  <2>5. \A m \in usable : multiples[m] \in values  BY <2>1
  <2>6. low \in values /\ high \in values /\ \A y \in values : low <= y /\ y <= high
    <3>1. values \subseteq Int  BY <2>3
    <3> HIDE DEF values
    <3> QED  BY <1>7, <2>2, <3>1, ExtremesExist
  <2>7. low \in Nat \ {0} /\ high \in Nat \ {0}  BY <2>3, <2>6
  <2>8. ASSUME n > 0 PROVE each \in low..high
    <3>1. \A m \in usable : multiples[m] \in low..high  BY <2>3, <2>5, <2>6, <2>7
    <3> HIDE DEF low, high, usable
    <3>2. total \in Int /\ low * n <= total /\ total <= high * n
      BY <1>2, <1>4, <2>7, <3>1, SumWithin
    <3>3. Max({n, 1}) = n
      <4>1. n \in {n, 1} /\ \A y \in {n, 1} : n >= y  BY <1>2, <2>8
      <4>2. \A x \in {n, 1} : (\A y \in {n, 1} : x >= y) => x = n  BY <1>2, <2>8
      <4> HIDE DEF n
      <4> QED  BY <4>1, <4>2 DEF Max
    <3>4. n \in Nat \ {0}  BY <1>2, <2>8
    <3> HIDE DEF n
    <3>5. total \div n \in low..high  BY <2>7, <3>2, <3>4, DivWithin
    <3> QED  BY <3>3, <3>4, <3>5 DEF Quot
  <2>9. dcf # NA => dcf \in low..high  BY <2>3, <2>4, <2>6, <2>7 DEF Known
  <2> HIDE DEF low, high, each
  <2>10. fair \in low..high
    <3>0. n \in Nat /\ (n = 0 => dcf # NA)  BY <1>2, <1>5, <1>7 DEF Known
    <3> HIDE DEF n
    <3>1. CASE n = 0  BY <2>9, <3>0, <3>1
    <3>2. CASE n > 0 /\ dcf = NA  BY <2>8, <3>0, <3>2 DEF Known
    <3>3. CASE n > 0 /\ dcf # NA
      <4>1. dcf \in low..high /\ each \in low..high  BY <2>8, <2>9, <3>3
      <4>2. Quot(40 * dcf + 60 * each, 100) \in low..high  BY <2>7, <4>1 DEF Quot
      <4> QED  BY <3>0, <3>3, <4>2 DEF Known
    <3>4. n = 0 \/ n > 0  BY <3>0
    <3> HIDE DEF fair
    <3> QED  BY <3>1, <3>2, <3>3, <3>4
  <2>11. ASSUME ~ torn PROVE 2 * high <= 5 * low
    <3>1. CASE methods > 1  BY <2>7, <2>11, <3>1
    <3>2. CASE ~ methods > 1
      <4>1. high = low
        <5>1. CASE n = 0
          <6>1. values = own  BY <1>5, <5>1
          <6>2. values = {dcf}  BY <1>7, <6>1
          <6> QED  BY <2>6, <6>2
        <5>2. CASE n # 0
          <6>1. n = 1 /\ ~ Known(dcf)  BY <1>2, <3>2, <5>2
          <6>2. PICK m : usable = {m}  BY <1>2, <6>1, FS_Singleton
          <6>3. values = {multiples[m]}  BY <6>1, <6>2
          <6> HIDE DEF values
          <6> QED  BY <2>6, <6>3
        <5> QED  BY <5>1, <5>2
      <4> QED  BY <2>7, <4>1
    <3> QED  BY <3>1, <3>2
  <2>12. /\ v.fair = IF torn THEN NA ELSE fair
         /\ v.low = low /\ v.high = high
    BY <1>1, <1>7
  <2> HIDE DEF fair, torn, values
  <2>13. Grounded(v)  BY <2>10, <2>11, <2>12 DEF Grounded, Known
  <2> QED  BY <2>13 DEF v
<1> QED  BY <1>6, <1>7

\* The forecast of a cash flow, and what it is worth today.
LEMMA DiscountedInt ==
    ASSUME NEW x \in Int, NEW years \in Nat, NEW rate \in Nat
    PROVE  Discounted(x, years, rate) \in Int
<1> DEFINE row == [y \in 1..years |-> y]
<1>1. Discounted(x, years, rate) = Discounts!Folded(rate, x, row)
  BY DEF Discounted, Discounts!Folded, FoldLeft, MapThenFoldSet, Max,
         Discounts!FoldLeft, Discounts!MapThenFoldSet, Discounts!Max
<1>2. row \in Seq(Int)  OBVIOUS
<1>3. \A v \in Int, y \in Int : Quot(100 * v, 100 + rate) \in Int
  <2> TAKE v \in Int, y \in Int
  <2>1. 100 * v \in Int /\ 100 + rate \in Int /\ 100 + rate # 0  OBVIOUS
  <2> QED  BY <2>1, QuotInt
<1> HIDE DEF row
<1> QED  BY <1>1, <1>2, <1>3, Discounts!FoldedKeeps

Inputs(a) ==
    /\ a.fcf \in Int /\ a.shares \in Int /\ a.net_debt \in Int /\ a.growth \in Int
    /\ a.rate \in Int /\ a.terminal_growth \in Int

Forecasted == [fcf : Int, sum : Int]

\* A year of the forecast.
LEMMA ForecastIs ==
    ASSUME NEW a, Inputs(a), a.rate > 0, NEW acc \in Forecasted, NEW year \in Nat
    PROVE  Forecast(a, acc, year) \in Forecasted
<1> DEFINE years == ExplicitYears(a)
           slope == (a.terminal_growth - a.growth) * (year - 1)
           top == Max({years - 1, 1})
           fade == Quot(slope, top)
           g == Growth(a, year, years)
           fcf == Quot(acc.fcf * (100 + g), 100)
<1>1. Forecast(a, acc, year) = [fcf |-> fcf, sum |-> acc.sum + Discounted(fcf, year, a.rate)]
  BY DEF Forecast
<1>2. acc.fcf \in Int /\ acc.sum \in Int  BY DEF Forecasted
<1>3. years \in 1..15  BY ClampIn DEF ExplicitYears
<1> HIDE DEF years
<1>4. top \in Int /\ top # 0
  <2>1. CASE years - 1 >= 1
    <3>1. years - 1 \in {years - 1, 1} /\ \A y \in {years - 1, 1} : years - 1 >= y  BY <1>3, <2>1
    <3> QED  BY <1>3, <3>1 DEF Max
  <2>2. CASE years = 1
    <3>1. {years - 1, 1} = {0, 1}  BY <2>2
    <3>2. 1 \in {0, 1} /\ \A y \in {0, 1} : 1 >= y  OBVIOUS
    <3>3. Max({0, 1}) = 1  BY <3>2 DEF Max
    <3> QED  BY <3>1, <3>3
  <2> QED  BY <1>3, <2>1, <2>2
<1>5. slope \in Int  BY DEF Inputs
<1>6. g = a.growth + fade  BY DEF Growth
<1> HIDE DEF top, slope
<1>7. fade \in Int  BY <1>4, <1>5, QuotInt
<1> HIDE DEF fade, g
<1>8. g \in Int  BY <1>6, <1>7 DEF Inputs
<1>9. acc.fcf * (100 + g) \in Int  BY <1>2, <1>8
<1>10. fcf \in Int
  <2>1. 100 \in Int /\ 100 # 0  OBVIOUS
  <2> QED  BY <1>9, <2>1, QuotInt
<1> HIDE DEF fcf
<1>11. Discounted(fcf, year, a.rate) \in Int
  <2>1. a.rate \in Nat  BY DEF Inputs
  <2> QED  BY <1>10, <2>1, DiscountedInt
<1> QED  BY <1>1, <1>2, <1>10, <1>11 DEF Forecasted

\* run_dcf: a value, when there is one, is positive.
LEMMA DcfIs ==
    ASSUME NEW a, Inputs(a)
    PROVE  RunDcf(a) = NA \/ RunDcf(a) \in Nat \ {0}
<1> DEFINE years == ExplicitYears(a)
           row == [y \in 1..years |-> y]
           start == [fcf |-> a.fcf, sum |-> 0]
           explicit == FoldLeft(LAMBDA acc, year : Forecast(a, acc, year), start, row)
           terminal == Quot(explicit.fcf * (100 + a.terminal_growth), a.rate - a.terminal_growth)
           equity == explicit.sum + Discounted(terminal, years, a.rate) - a.net_debt
           worth == Quot(equity, a.shares)
<1>1. RunDcf(a) = IF DcfRefused(a) \/ worth <= 0 THEN NA ELSE worth  BY DEF RunDcf
<1> HIDE DEF worth
<1>2. years \in 1..15  BY ClampIn DEF ExplicitYears
<1>3. SUFFICES ASSUME ~ DcfRefused(a) PROVE worth \in Int
  BY <1>1
<1>4. a.rate > 0 /\ a.terminal_growth < a.rate /\ a.shares # 0  BY <1>3 DEF DcfRefused, Inputs
<1> HIDE DEF years
<1>5. explicit = Forecasts!Folded(a, start, row)
  BY DEF Forecasts!Folded, FoldLeft, MapThenFoldSet, Max,
         Forecasts!FoldLeft, Forecasts!MapThenFoldSet, Forecasts!Max
<1>6. row \in Seq(Nat)  BY <1>2
<1>7. start \in Forecasted  BY DEF Forecasted, Inputs
<1>8. \A b \in Forecasted, y \in Nat : Forecast(a, b, y) \in Forecasted  BY <1>4, ForecastIs
<1> HIDE DEF row, start, explicit
<1>9. explicit \in Forecasted  BY <1>5, <1>6, <1>7, <1>8, Forecasts!FoldedKeeps
<1>10. explicit.fcf \in Int /\ explicit.sum \in Int  BY <1>9 DEF Forecasted
<1>11. terminal \in Int
  <2>1. explicit.fcf * (100 + a.terminal_growth) \in Int  BY <1>10 DEF Inputs
  <2>2. a.rate - a.terminal_growth \in Int /\ a.rate - a.terminal_growth # 0  BY <1>4 DEF Inputs
  <2> QED  BY <2>1, <2>2, QuotInt
<1> HIDE DEF terminal
<1>12. Discounted(terminal, years, a.rate) \in Int
  <2>1. a.rate \in Nat /\ years \in Nat  BY <1>2, <1>4 DEF Inputs
  <2> QED  BY <1>11, <2>1, DiscountedInt
<1>13. equity \in Int  BY <1>10, <1>12 DEF Inputs
<1> HIDE DEF equity
<1> QED  BY <1>4, <1>13, QuotInt DEF Inputs, worth

LEMMA ImpliedInt ==
    ASSUME NEW per \in Int, NEW multiple \in Int
    PROVE  Implied(per, multiple) \in Int
<1>1. per * multiple \in Int /\ 100 \in Int /\ 100 # 0  OBVIOUS
<1>2. Quot(per * multiple, 100) \in Int  BY <1>1, QuotInt
<1> QED  BY <1>2, NAIsInt DEF Implied

\* The median of the multiples a company had, or none.
LEMMA OwnPeInt == ASSUME NEW history \in Seq(Int) PROVE OwnPeMedian(history) \in Int
<1> DEFINE sane == {i \in DOMAIN history : history[i] > 0 /\ history[i] < 10000}
           some == [i \in sane |-> history[i]]
<1>1. OwnPeMedian(history) = IF Cardinality(sane) < 3 THEN NA ELSE Median(some)  BY DEF OwnPeMedian
<1>2. sane \in SUBSET DOMAIN history  OBVIOUS
<1>3. IsFiniteSet(DOMAIN history)  BY RowFigured DEF Figured
<1> HIDE DEF sane
<1>4. IsFiniteSet(sane)  BY <1>2, <1>3, FS_Subset, Zenon
<1>5. Figured(some) /\ DOMAIN some = sane  BY <1>2, <1>4 DEF Figured
<1> HIDE DEF some
<1>6. sane = {} => Cardinality(sane) = 0  BY FS_EmptySet
<1>7. sane # {} => Median(some) \in Int  BY <1>5, MedianInt
<1> QED  BY <1>1, <1>6, <1>7, NAIsInt

\* The valuation shown on the page of a name.
LEMMA ValuationGrounded ==
    ASSUME NEW d, Stored(d), NEW a, FiguresOf(d, a), ~ a.fundamental.insufficient
    PROVE  Grounded(ValuationFor(a.fundamental.metrics, d.statements[1], d.shares, LastClose(d),
                                 a.peers, d.history))
<1> DEFINE m == a.fundamental.metrics
           s == d.statements[1]
           price == LastClose(d)
           start == IF Known(m.fcf_growth) THEN m.fcf_growth ELSE m.revenue_growth
           net_debt == Plus(s.debt, IF Known(s.cash) THEN -s.cash ELSE NA)
           fcf == IF Known(s.fcf) THEN s.fcf
                  ELSE IF Known(s.ocf) /\ Known(s.capex) THEN s.ocf - Magnitude(s.capex) ELSE NA
           per(multiple) == IF price = NA \/ multiple = NA \/ multiple <= 0 THEN NA
                            ELSE Quot(100 * price, multiple)
           median(values) == IF DOMAIN values = {} THEN NA ELSE Median(values)
           inputs == [fcf |-> fcf, shares |-> d.shares,
                      net_debt |-> IF Known(net_debt) THEN net_debt ELSE 0,
                      growth |-> IF Known(start) THEN Clamp(-25, start, 30) ELSE 10,
                      rate |-> CostOfEquity(100), terminal_growth |-> TerminalGrowth,
                      years |-> ForecastYears]
           figures == [pe |-> per(m.pe), pb |-> per(m.pb)]
           peer == [pe |-> median(a.peers.pe), pb |-> median(a.peers.pb)]
           multiples == MultiplesValuation(figures, peer, OwnPeMedian(d.history))
<1>1. ValuationFor(m, s, d.shares, price, a.peers, d.history)
        = BlendedValuation(RunDcf(inputs), multiples)
  BY DEF ValuationFor
<1>2. m.pe \in Int /\ m.pb \in Int  BY DEF FiguresOf, Analyzed
<1>3. s \in StoredStatement
  <2>1. d.statements # <<>>  BY DEF FiguresOf, Analyzed
  <2>2. d.statements \in Seq(StoredStatement)  BY DEF Stored
  <2> QED  BY <2>1, <2>2
<1>4. price \in Int  BY LastCloseInt
<1> HIDE DEF m, s, price
<1>5. Inputs(inputs)
  <2>1. fcf \in Int  BY <1>3, NAIsInt DEF StoredStatement, Magnitude
  <2>2. (IF Known(net_debt) THEN net_debt ELSE 0) \in Int
    BY <1>3, NAIsInt DEF StoredStatement, Plus
  <2>3. Clamp(-25, start, 30) \in Int  BY ClampIn
  <2>4. CostOfEquity(100) \in Int /\ TerminalGrowth \in Int
    BY DEF CostOfEquity, RiskFree, EquityRiskPremium, Quot, TerminalGrowth
  <2>5. d.shares \in Int  BY DEF Stored
  <2> HIDE DEF fcf, net_debt, start
  <2> QED  BY <2>1, <2>2, <2>3, <2>4, <2>5 DEF Inputs
<1> HIDE DEF inputs
<1>6. \A x \in Int : per(x) \in Int
  <2> TAKE x \in Int
  <2>1. x # 0 => Quot(100 * price, x) \in Int  BY <1>4, QuotInt
  <2> QED  BY <2>1, NAIsInt
<1>7. figures.pe \in Int /\ figures.pb \in Int  BY <1>2, <1>6
<1>8. peer.pe \in Int /\ peer.pb \in Int
  <2>1. Figured(a.peers.pe) /\ Figured(a.peers.pb)  BY DEF FiguresOf
  <2>2. \A v : Figured(v) => median(v) \in Int  BY MedianInt, NAIsInt
  <2> HIDE DEF median
  <2> QED  BY <2>1, <2>2
<1>9. OwnPeMedian(d.history) \in Int  BY OwnPeInt DEF Stored
<1> DEFINE own == OwnPeMedian(d.history)
<1> HIDE DEF figures, peer, own
<1>10. /\ DOMAIN multiples = {"peer_pe", "own_pe", "peer_pb"}
       /\ multiples["peer_pe"] = Implied(figures.pe, peer.pe)
       /\ multiples["own_pe"] = Implied(figures.pe, own)
       /\ multiples["peer_pb"] = Implied(figures.pb, peer.pb)
  BY DEF MultiplesValuation, own
<1> HIDE DEF multiples
<1>11. Figured(multiples)
  <2>1. IsFiniteSet({"peer_pe", "own_pe", "peer_pb"})
    <3>1. IsFiniteSet({"peer_pe", "own_pe"}) /\ IsFiniteSet({"peer_pb"})  BY PairFinite, FS_Singleton
    <3>2. {"peer_pe", "own_pe", "peer_pb"} = {"peer_pe", "own_pe"} \cup {"peer_pb"}  OBVIOUS
    <3> QED  BY <3>1, <3>2, FS_Union
  <2>2. own \in Int  BY <1>9 DEF own
  <2>3. \A k \in {"peer_pe", "own_pe", "peer_pb"} : multiples[k] \in Int
    BY <1>7, <1>8, <1>10, <2>2, ImpliedInt
  <2> QED  BY <1>10, <2>1, <2>3 DEF Figured
<1>12. RunDcf(inputs) = NA \/ RunDcf(inputs) \in Nat \ {0}  BY <1>5, DcfIs
<1>13. Grounded(BlendedValuation(RunDcf(inputs), multiples))  BY <1>11, <1>12, BlendGrounded
<1> QED  BY <1>1, <1>13 DEF m, s, price

\* derive_rating: its confidence is the score's, or lower, or the lowest.
LEMMA RatingGrounded ==
    ASSUME NEW alpha, alpha.confidence \in Confidences, alpha.coverage \in Int
    PROVE  LET c == DeriveRating(alpha).confidence
           IN  c = "LOW" \/ ConfidenceRank[c] <= ConfidenceRank[alpha.confidence]
<1> DEFINE rank == ConfidenceRank[alpha.confidence]
           base == Max({0, rank - 1})
           accounts == IF alpha.parts["fundamental"] = NA THEN Min({base, 1}) ELSE base
           fresh == IF alpha.stale THEN Max({0, accounts - 1}) ELSE accounts
           covered == IF alpha.coverage < 70 THEN Min({fresh, 1}) ELSE fresh
           c == DeriveRating(alpha).confidence
<1>1. c = "LOW" \/ c = <<"LOW", "MEDIUM", "HIGH">>[covered + 1]
  BY DEF DeriveRating, NotRated, RatingConfidence
<1>2. rank \in 0..3  BY DEF Confidences, ConfidenceRank
<1> HIDE DEF rank, c
<1>3. base \in Nat /\ (base = 0 \/ base = rank - 1)
  <2>1. 0 \in Int /\ rank - 1 \in Int  BY <1>2
  <2>2. base \in {0, rank - 1} /\ base >= 0  BY <2>1, MaxOfTwo
  <2> QED  BY <2>1, <2>2
<1> HIDE DEF base
<1>4. accounts \in 0..base
  <2>1. Min({base, 1}) \in {base, 1} /\ Min({base, 1}) <= base  BY <1>3, MinOfTwo
  <2> QED  BY <1>3, <2>1
<1> HIDE DEF accounts
<1>5. fresh \in 0..base
  <2>1. 0 \in Int /\ accounts - 1 \in Int  BY <1>3, <1>4
  <2>2. Max({0, accounts - 1}) \in {0, accounts - 1} /\ Max({0, accounts - 1}) >= 0
    BY <2>1, MaxOfTwo
  <2> QED  BY <1>3, <1>4, <2>2
<1> HIDE DEF fresh
<1>6. covered \in 0..base
  <2>0. fresh \in Int /\ 1 \in Int  BY <1>3, <1>5
  <2>1. Min({fresh, 1}) \in {fresh, 1} /\ Min({fresh, 1}) <= fresh  BY <2>0, MinOfTwo
  <2> QED  BY <1>3, <1>5, <2>1
<1> HIDE DEF covered
<1>7. covered = 0 \/ (covered \in {1, 2} /\ covered + 1 <= rank)  BY <1>2, <1>3, <1>6
<1>8. covered = 0 => <<"LOW", "MEDIUM", "HIGH">>[covered + 1] = "LOW"  OBVIOUS
<1>9. covered = 1 => <<"LOW", "MEDIUM", "HIGH">>[covered + 1] = "MEDIUM"  OBVIOUS
<1>10. covered = 2 => <<"LOW", "MEDIUM", "HIGH">>[covered + 1] = "HIGH"  OBVIOUS
<1>11. ConfidenceRank["MEDIUM"] = 2 /\ ConfidenceRank["HIGH"] = 3  BY DEF ConfidenceRank
<1>12. c = "LOW" \/ ConfidenceRank[c] <= rank
  BY <1>1, <1>2, <1>7, <1>8, <1>9, <1>10, <1>11
<1> QED  BY <1>12 DEF c, rank

------------------------------------------------------------------------------
(* Invented data.  Its conviction is at most a point, which the first gate  *)
(* of the sizing turns down.                                                *)

\* _conviction: a number, and a small one of what is known to be invented.
LEMMA FakesUnconvincing ==
    ASSUME NEW pack,
           pack.items["alpha_score"] \in Int, pack.items["score_coverage"] \in Int
    PROVE  Conviction(pack) \in Int /\ (pack.synthetic => Conviction(pack) <= 10)
<1> DEFINE x == pack.items["alpha_score"]
           y == pack.items["score_coverage"]
           strength == Clamp(0, 2 * (x - 40), 100)
           quotient == Quot(100 * y, 90)
           share == Clamp(40, quotient, 100)
           covered == Quot(strength * share, 100)
           bears == Cardinality(Pointing(pack, "bearish")) > Cardinality(Pointing(pack, "bullish"))
           cut == IF bears THEN Quot(85 * covered, 100) ELSE covered
<1>0. 10 \in Int  OBVIOUS
<1>1. 100 * y \in Int /\ 90 \in Int /\ 90 # 0  OBVIOUS
<1>2. strength \in Int  BY ClampIn
<1>3. quotient \in Int  BY <1>1, QuotInt, Zenon
<1>5. Conviction(pack) = IF pack.synthetic THEN Min({cut, 10}) ELSE cut  BY DEF Conviction
<1> HIDE DEF quotient
<1>4. share \in Int
  <2>1. 40 \in Int /\ 100 \in Int /\ 40 <= 100  OBVIOUS
  <2>2. share \in 40..100  BY <2>1, ClampIn, Zenon
  <2> QED  BY <2>2
<1> HIDE DEF strength, share
<1>6. strength * share \in Int  BY <1>2, <1>4
<1>7. covered \in Int  BY <1>6, QuotInt
<1> HIDE DEF covered
<1>8. 85 * covered \in Int  BY <1>7
<1>9. cut \in Int  BY <1>7, <1>8, QuotInt
<1> HIDE DEF cut
<1>10. Min({cut, 10}) \in {cut, 10} /\ Min({cut, 10}) <= 10  BY <1>0, <1>9, MinOfTwo, Zenon
<1> QED  BY <1>5, <1>9, <1>10

Fake(d) == d.conviction \in Int /\ (d.synthetic => d.conviction <= 10)

\* A decision about a name whose analysis is the engines' own.
LEMMA DecisionFake ==
    ASSUME stored \in Universes, NEW n \in DOMAIN stored, NEW output,
           run.analyses[n] = Analysed[stored][n]
    PROVE  Fake(Decision(n, output))
<1> DEFINE d == Decision(n, output)
           numbers == ScoreBasedAction(Pack(n), Held(n))
           derived == DeriveAction(Pack(n), Held(n), output)
           a == run.analyses[n]
<1>1. d.conviction = derived.conviction /\ d.synthetic = Pack(n).synthetic  BY DEF Decision
<1>2. derived.conviction = numbers.conviction  BY WordsAct
<1>3. a.alpha.value \in Int /\ a.alpha.coverage \in 0..100
  BY FiguresAreNumbers DEF FiguresOf
<1>4. Known(a.alpha.coverage)  BY <1>3 DEF Known, NA
<1>5. /\ Has(Pack(n), "alpha_score") => Pack(n).items["alpha_score"] \in Int
      /\ Pack(n).items["score_coverage"] \in Int
  BY <1>3, <1>4, ScoreOffered DEF Pack
<1>6. numbers.conviction = IF Has(Pack(n), "alpha_score") THEN Conviction(Pack(n)) ELSE 0
  BY DEF ScoreBasedAction
<1> HIDE DEF d, numbers, derived
<1>7. d.conviction \in Int /\ (d.synthetic => d.conviction <= 10)
  <2>1. CASE Has(Pack(n), "alpha_score")
    <3>1. Conviction(Pack(n)) \in Int /\ (Pack(n).synthetic => Conviction(Pack(n)) <= 10)
      BY <1>5, <2>1, FakesUnconvincing
    <3> QED  BY <1>1, <1>2, <1>6, <2>1, <3>1
  <2>2. CASE ~ Has(Pack(n), "alpha_score")  BY <1>1, <1>2, <1>6, <2>2
  <2> QED  BY <2>1, <2>2
<1> QED  BY <1>7 DEF Fake, d

\* size_position: too little conviction, no position.
LEMMA FakesRejected ==
    ASSUME NEW n, NEW correlated, Fake(decisions[n]), decisions[n].synthetic
    PROVE  SizePosition(SizingInputs(n, correlated)) = 0
<1>1. SizingInputs(n, correlated).conviction = decisions[n].conviction  BY DEF SizingInputs
<1>2. SizingInputs(n, correlated).conviction < ConvictionFloor
  BY <1>1 DEF Fake, ConvictionFloor
<1> QED  BY <1>2 DEF SizePosition, Rejected

\* A run works on names of the universe, with the analyses of the engines.
RunInv ==
    /\ stored \in Universes
    /\ DOMAIN run = DOMAIN NoRun
    /\ run.phase = "idle" => run = NoRun
    /\ run.phase # "idle" => run.request \in Requests
    /\ run.queue \subseteq DOMAIN stored
    /\ DOMAIN run.analyses \subseteq DOMAIN stored
    /\ \A n \in DOMAIN run.analyses : run.analyses[n] = Analysed[stored][n]
    /\ run.work \in Seq(DOMAIN run.analyses)

RunFields == {"phase", "queue", "analyses", "work", "outputs", "request"}

LEMMA NoRunFacts ==
    /\ DOMAIN NoRun = RunFields /\ NoRun.phase = "idle" /\ NoRun.queue = {}
    /\ DOMAIN NoRun.analyses = {} /\ NoRun.work \in Seq(DOMAIN NoRun.analyses)
  BY DEF NoRun, RunFields

LEMMA IdleRun == ASSUME stored \in Universes, run = NoRun PROVE RunInv
  BY NoRunFacts DEF RunInv

LEMMA BeginKeepsRun ==
    ASSUME RunInv, NEW request \in Requests, BeginRun(request)
    PROVE  RunInv'
<1>1. /\ run' = [NoRun EXCEPT !.phase = "scoring", !.request = request,
                              !.queue = request.names \cap DOMAIN stored]
      /\ stored' = stored
  BY DEF BeginRun
<1>2. /\ DOMAIN run' = RunFields /\ run'.phase = "scoring" /\ run'.request = request
      /\ run'.queue = request.names \cap DOMAIN stored
      /\ run'.analyses = NoRun.analyses /\ run'.work = NoRun.work
  BY <1>1, NoRunFacts DEF RunFields
<1> QED  BY <1>1, <1>2, NoRunFacts DEF RunInv

LEMMA ScoreKeepsRun ==
    ASSUME RunInv, Score
    PROVE  RunInv'
<1> DEFINE n == NextOf(run.queue)
           a == Analysed[stored][n]
           kept == \/ run.request.min_score = NA
                   \/ Known(a.alpha.value) /\ a.alpha.value >= run.request.min_score
           analyses == IF kept THEN Put(run.analyses, n, a) ELSE run.analyses
<1>1. /\ run.phase = "scoring" /\ run.queue # {} /\ stored' = stored
      /\ run' = [run EXCEPT !.queue = run.queue \ {n}, !.analyses = analyses]
  <2> DEFINE next(m, b) ==
        LET good == \/ run.request.min_score = NA
                    \/ Known(b.alpha.value) /\ b.alpha.value >= run.request.min_score
        IN  run' = [run EXCEPT !.queue = @ \ {m},
                               !.analyses = IF good THEN Put(@, m, b) ELSE @]
  <2>1. \E m \in {NextOf(run.queue)} : \E b \in {Analysed[stored][m]} : next(m, b)
    BY DEF Score
  <2> HIDE DEF next
  <2>2. next(n, a)  BY <2>1
  <2>3. run' = [run EXCEPT !.queue = run.queue \ {n}, !.analyses = analyses]
    BY <2>2 DEF next
  <2> QED  BY <2>3 DEF Score
<1>2. n \in DOMAIN stored  BY <1>1 DEF NextOf, RunInv
<1>3. /\ DOMAIN analyses \subseteq DOMAIN stored
      /\ \A m \in DOMAIN analyses : analyses[m] = Analysed[stored][m]
      /\ DOMAIN run.analyses \subseteq DOMAIN analyses
  BY <1>2 DEF Put, RunInv
<1> HIDE DEF n, analyses
<1>4. /\ DOMAIN run' = RunFields /\ run'.phase = "scoring" /\ run'.request = run.request
      /\ run'.queue = run.queue \ {n} /\ run'.analyses = analyses /\ run'.work = run.work
  BY <1>1, NoRunFacts DEF RunInv, RunFields
<1>5. run.work \in Seq(DOMAIN analyses)
  <2>1. run.work \in Seq(DOMAIN run.analyses)  BY DEF RunInv
  <2> QED  BY <1>3, <2>1
<1> QED  BY <1>1, <1>3, <1>4, <1>5, NoRunFacts DEF RunInv

LEMMA RankKeepsRun ==
    ASSUME RunInv, Rank
    PROVE  RunInv'
<1>1. run.phase = "scoring" /\ stored' = stored  BY DEF Rank
<1>2. PICK best \in BestFirst(run.analyses, run.request.limit) :
        run' = [run EXCEPT !.phase = "agents", !.work = best]
  BY DEF Rank
<1>3. best \in Seq(DOMAIN run.analyses)
  <2> DEFINE names == DOMAIN run.analyses
             size == Cardinality(names)
             kept == IF run.request.limit = 0 \/ run.request.limit > size
                     THEN size ELSE run.request.limit
  <2>1. best \in [1..kept -> names]  BY DEF BestFirst
  <2>2. IsFiniteSet(names)
    <3>1. IsFiniteSet(DOMAIN stored) /\ names \subseteq DOMAIN stored  BY DeskAssumption DEF RunInv
    <3> QED  BY <3>1, FS_Subset
  <2>3. size \in Nat  BY <2>2, FS_CardinalityType
  <2>4. run.request.limit \in Nat  BY <1>1, DeskAssumption DEF RunInv
  <2>5. kept \in Nat  BY <2>3, <2>4
  <2> HIDE DEF kept, names
  <2>6. best \in Seq(names)  BY <2>1, <2>5
  <2> QED  BY <2>6 DEF names
<1>4. /\ DOMAIN run' = RunFields /\ run'.phase = "agents" /\ run'.request = run.request
      /\ run'.queue = run.queue /\ run'.analyses = run.analyses /\ run'.work = best
  BY <1>2, NoRunFacts DEF RunInv, RunFields
<1> QED  BY <1>1, <1>3, <1>4, NoRunFacts DEF RunInv

\* The steps that take from the queue, from the work or add to the outputs.
LEMMA OtherKeepsRun ==
    ASSUME RunInv, stored' = stored, NEW queue, NEW work, NEW outputs,
           queue \subseteq run.queue, work \in Seq(DOMAIN run.analyses),
           run.phase # "idle",
           run' = [run EXCEPT !.queue = queue, !.work = work, !.outputs = outputs]
    PROVE  RunInv'
<1>1. /\ DOMAIN run' = RunFields /\ run'.phase = run.phase /\ run'.request = run.request
      /\ run'.queue = queue /\ run'.analyses = run.analyses /\ run'.work = work
  BY NoRunFacts DEF RunInv, RunFields
<1> QED  BY <1>1, NoRunFacts DEF RunInv

LEMMA TailIn ==
    ASSUME NEW S, NEW s \in Seq(S), s # <<>>
    PROVE  Tail(s) \in Seq(S)
  OBVIOUS

\* The first name is done with.
LEMMA NextNameKeepsRun ==
    ASSUME RunInv, stored' = stored, run.phase = "agents", run.work # <<>>,
           run' = NextName(run)
    PROVE  RunInv'
<1>1. Tail(run.work) \in Seq(DOMAIN run.analyses)
  <2>1. run.work \in Seq(DOMAIN run.analyses)  BY DEF RunInv
  <2> QED  BY <2>1, TailIn
<1>2. run' = [run EXCEPT !.queue = run.queue, !.work = Tail(run.work), !.outputs = <<>>]
  BY NoRunFacts DEF RunInv, NextName, RunFields
<1> QED  BY <1>1, <1>2, OtherKeepsRun

\* The run as the steps of the desk see it.
LEMMA RunInvStep == RunInv /\ [Next]_vars => RunInv'
<1> SUFFICES ASSUME RunInv, [Next]_vars PROVE RunInv'  OBVIOUS
<1>1. CASE Refresh
  <2>1. run' = NoRun /\ stored' \in Universes  BY <1>1 DEF Refresh, Idle, RunInv
  <2> QED  BY <2>1, NoRunFacts DEF RunInv
<1>2. ASSUME NEW request \in Requests, BeginRun(request) PROVE RunInv'  BY <1>2, BeginKeepsRun
<1>3. CASE Score  BY <1>3, ScoreKeepsRun
<1>4. CASE SkipName
  <2> DEFINE queue == run.queue \ {NextOf(run.queue)}
  <2>1. /\ run.phase = "scoring" /\ stored' = stored
        /\ run' = [run EXCEPT !.queue = queue]
    BY <1>4 DEF SkipName
  <2>2. queue \subseteq run.queue  OBVIOUS
  <2> HIDE DEF queue
  <2>3. /\ DOMAIN run' = RunFields /\ run'.phase = run.phase /\ run'.request = run.request
        /\ run'.queue = queue /\ run'.analyses = run.analyses /\ run'.work = run.work
    BY <2>1, NoRunFacts DEF RunInv, RunFields
  <2> QED  BY <2>1, <2>2, <2>3, NoRunFacts DEF RunInv
<1>5. CASE Rank  BY <1>5, RankKeepsRun
<1>6. ASSUME NEW answer, Ask(answer) PROVE RunInv'
  <2> DEFINE outputs == Append(run.outputs, Output(Len(run.outputs) + 1, Head(run.work), answer))
  <2>1. /\ run.phase = "agents" /\ stored' = stored
        /\ run' = [run EXCEPT !.outputs = outputs]
    BY <1>6 DEF Ask
  <2> HIDE DEF outputs
  <2>2. /\ DOMAIN run' = RunFields /\ run'.phase = run.phase /\ run'.request = run.request
        /\ run'.queue = run.queue /\ run'.analyses = run.analyses /\ run'.work = run.work
    BY <2>1, NoRunFacts DEF RunInv, RunFields
  <2> QED  BY <2>1, <2>2, NoRunFacts DEF RunInv
<1>7. ASSUME NEW answer, Decide(answer) PROVE RunInv'
  <2>1. run.phase = "agents" /\ run.work # <<>> /\ run' = NextName(run) /\ stored' = stored
    BY <1>7 DEF Decide
  <2> QED  BY <2>1, NextNameKeepsRun
<1>8. CASE FailName
  <2>1. run.phase = "agents" /\ run.work # <<>> /\ run' = NextName(run) /\ stored' = stored
    BY <1>8 DEF FailName
  <2> QED  BY <2>1, NextNameKeepsRun
<1>9. CASE EndRun
  <2>1. run' = NoRun /\ stored' \in Universes  BY <1>9 DEF EndRun, RunInv
  <2> QED  BY <2>1, NoRunFacts DEF RunInv
<1>10. CASE UNCHANGED <<stored, run>>  BY <1>10 DEF RunInv
<1>11. ASSUME NEW n, OpenPage(n) \/ Exit(n) PROVE UNCHANGED <<stored, run>>
  BY <1>11 DEF OpenPage, Exit, Fill
<1>12. ASSUME NEW n, NEW correlated, Advise(n, correlated) PROVE UNCHANGED <<stored, run>>
  BY <1>12 DEF Advise
<1>13. ASSUME Follow \/ \E order \in OwnOrders : Order(order) PROVE UNCHANGED <<stored, run>>
  BY <1>13 DEF Follow, Order, Buy, Fill
<1>14. CASE UNCHANGED vars  BY <1>14, <1>10 DEF vars
<1> QED
  BY <1>1, <1>2, <1>3, <1>4, <1>5, <1>6, <1>7, <1>8, <1>9, <1>10, <1>11, <1>12, <1>13, <1>14
  DEF Next

\* What is decided of invented data is unconvincing, and it is not advised.
FakeInv ==
    /\ RunInv
    /\ \A n \in DOMAIN decisions : Fake(decisions[n])
    /\ run.phase # "idle" => advice = NoAdvice
    /\ advice.weight > 0 => /\ advice.name \in DOMAIN decisions
                            /\ ~ decisions[advice.name].synthetic

\* The fifth agent decides of a name that the run has analysed.
LEMMA DecideKeepsFakes ==
    ASSUME FakeInv, NEW answer, Decide(answer), NEW m \in DOMAIN decisions'
    PROVE  Fake(decisions'[m])
<1> DEFINE n == Head(run.work)
           d == Decision(n, Output(5, n, answer))
<1>1. decisions' = Put(decisions, n, d) /\ run.work # <<>>  BY DEF Decide
<1>2. n \in DOMAIN run.analyses
  <2>1. run.work \in Seq(DOMAIN run.analyses)  BY DEF FakeInv, RunInv
  <2> QED  BY <1>1, <2>1
<1>3. n \in DOMAIN stored /\ run.analyses[n] = Analysed[stored][n] /\ stored \in Universes
  BY <1>2 DEF FakeInv, RunInv
<1> HIDE DEF n
<1>4. Fake(d)  BY <1>3, DecisionFake
<1> HIDE DEF d
<1>5. decisions'[m] = d \/ (m \in DOMAIN decisions /\ decisions'[m] = decisions[m])
  BY <1>1 DEF Put
<1> QED  BY <1>4, <1>5 DEF FakeInv

LEMMA FakeInvStep == FakeInv /\ [Next]_vars => FakeInv'
<1> SUFFICES ASSUME FakeInv, [Next]_vars PROVE FakeInv'  OBVIOUS
<1>1. RunInv'  BY RunInvStep DEF FakeInv
<1>2. \A n \in DOMAIN decisions' : Fake(decisions'[n])
  <2>1. CASE UNCHANGED decisions  BY <2>1 DEF FakeInv, Fake
  <2>2. CASE decisions' = <<>>  BY <2>2
  <2>3. CASE \E answer : Decide(answer)  BY <2>3, DecideKeepsFakes
  <2> QED  BY <2>1, <2>2, <2>3, WhoDecides
<1>3. ASSUME advice' = NoAdvice PROVE FakeInv'
  BY <1>1, <1>2, <1>3 DEF FakeInv, Fake, NoAdvice
<1>4. CASE run.phase # "idle" /\ UNCHANGED advice  BY <1>3, <1>4 DEF FakeInv
<1>5. ASSUME NEW n, NEW correlated, Advise(n, correlated) PROVE FakeInv'
  <2> DEFINE weight == SizePosition(SizingInputs(n, correlated))
  <2>1. /\ run.phase = "idle" /\ n \in DOMAIN decisions
        /\ advice'.name = n /\ advice'.weight = weight /\ UNCHANGED <<run, decisions>>
    BY <1>5 DEF Advise, Idle
  <2>2. Fake(decisions[n])  BY <2>1 DEF FakeInv
  <2>3. decisions[n].synthetic => weight = 0  BY <2>2, FakesRejected
  <2> HIDE DEF weight
  <2> QED  BY <1>1, <1>2, <2>1, <2>3 DEF FakeInv, Fake
<1>6. ASSUME NEW n, OpenPage(n) \/ Exit(n) PROVE advice' = NoAdvice
  BY <1>6 DEF OpenPage, Exit, Fill
<1>7. ASSUME NEW request, BeginRun(request) PROVE advice' = NoAdvice  BY <1>7 DEF BeginRun
<1>8. ASSUME NEW answer, Ask(answer) \/ Decide(answer)
      PROVE  run.phase # "idle" /\ UNCHANGED advice
  BY <1>8 DEF Ask, Decide, portfolio
<1>9. ASSUME Refresh \/ Follow \/ \E order \in OwnOrders : Order(order) PROVE advice' = NoAdvice
  BY <1>9 DEF Refresh, Follow, Order, Buy, Fill
<1>10. ASSUME Score \/ SkipName \/ Rank \/ FailName \/ EndRun
       PROVE  run.phase # "idle" /\ UNCHANGED advice
  BY <1>10 DEF Score, SkipName, Rank, FailName, EndRun, portfolio
<1>11. CASE UNCHANGED vars
  BY <1>1, <1>2, <1>11 DEF FakeInv, Fake, vars
<1> QED  BY <1>3, <1>4, <1>5, <1>6, <1>7, <1>8, <1>9, <1>10, <1>11 DEF Next

\* score_based_action, size_position: no position is ever advised in a name
\* whose decision was made on invented data.
THEOREM FakesKeptOut == Spec => []FakesNotSized
<1>1. Init => FakeInv
  BY IdleRun, NoRunFacts DEF Init, FakeInv, NoAdvice
<1>2. FakeInv => FakesNotSized  BY DEF FakeInv, FakesNotSized
<1> QED  BY <1>1, <1>2, FakeInvStep, PTL DEF Spec

------------------------------------------------------------------------------
(* The size advised.  Every stage takes a number to a smaller one or scales *)
(* it; the limits come after what scales.                                   *)

LEMMA AtMostBounds ==
    ASSUME NEW x \in Int, NEW y \in Int
    PROVE  AtMost(x, y) \in Int /\ AtMost(x, y) <= x /\ AtMost(x, y) <= y
  BY DEF AtMost

LEMMA AtLeastIsInt ==
    ASSUME NEW x \in Int, NEW y \in Int
    PROVE  AtLeast(x, y) \in Int
  BY DEF AtLeast

LEMMA HeadroomIsInt ==
    ASSUME NEW x \in Int, NEW y \in Int
    PROVE  Headroom(x, y) \in Int
<1>1. x - y \in Int  OBVIOUS
<1> QED  BY <1>1 DEF Headroom, AtLeast

\* Inputs that are numbers.
NumericInputs(i) ==
    /\ {i.conviction, i.entry, i.stop, i.volatility, i.turnover, i.correlated} \subseteq Int
    /\ {i.sector_weight, i.cash, i.speculative_weight, i.value} \subseteq Int

LEMMA ScaledIsInt ==
    ASSUME NEW i, NumericInputs(i)
    PROVE  Decorrelated(i, RiskCapped(i, Steadied(i, Convinced(i)))) \in Int
<1>1. Convinced(i) \in Int
  <2>1. i.conviction \in Int /\ 126 \in Int  BY DEF NumericInputs
  <2>2. AtMost(i.conviction, 126) \in Int  BY <2>1, AtMostBounds
  <2> QED  BY <2>2 DEF Convinced, BaseWeight
<1>2. ASSUME NEW w \in Int PROVE Steadied(i, w) \in Int
  <2>1. CASE Set(i.volatility) /\ i.volatility > 0
    <3>1. 3000 \div i.volatility \in Int  BY <2>1 DEF NumericInputs
    <3>2. AtMost(3000 \div i.volatility, 135) \in Int  BY <3>1, AtMostBounds
    <3>3. AtLeast(AtMost(3000 \div i.volatility, 135), 45) \in Int  BY <3>2, AtLeastIsInt
    <3> DEFINE k == AtLeast(AtMost(3000 \div i.volatility, 135), 45)
    <3>4. Steadied(i, w) = (w * k) \div 100  BY <2>1 DEF Steadied
    <3> HIDE DEF k
    <3>5. w * k \in Int  BY <3>3 DEF k
    <3> QED  BY <3>4, <3>5
  <2> QED  BY <2>1 DEF Steadied
<1>3. ASSUME NEW w \in Int PROVE RiskCapped(i, w) \in Int
  <2>1. StopDistance(i) \in Int
    <3>1. CASE Set(i.entry) /\ Set(i.stop) /\ i.entry > 0
      <4>1. Distance(i.entry, i.stop) \in Int  BY DEF Distance, NumericInputs
      <4>2. 100 * Distance(i.entry, i.stop) \in Int  BY <4>1
      <4> QED  BY <3>1, <4>2 DEF StopDistance, NumericInputs
    <3> QED  BY <3>1 DEF StopDistance
  <2>2. CASE StopDistance(i) > 0
    <3>1. (100 * MaxRisk) \div StopDistance(i) \in Int  BY <2>1, <2>2 DEF MaxRisk
    <3> QED  BY <2>2, <3>1, AtMostBounds DEF RiskCapped
  <2> QED  BY <2>2 DEF RiskCapped
<1>4. ASSUME NEW w \in Int PROVE Decorrelated(i, w) \in Int
  <2> DEFINE k == AtLeast(100 - 25 * i.correlated, 30)
  <2>1. 100 - 25 * i.correlated \in Int /\ 30 \in Int  BY DEF NumericInputs
  <2>2. k \in Int  BY <2>1, AtLeastIsInt
  <2>3. Decorrelated(i, w) = IF i.correlated > 0 THEN (w * k) \div 100 ELSE w  BY DEF Decorrelated
  <2> HIDE DEF k
  <2>4. w * k \in Int  BY <2>2
  <2> QED  BY <2>3, <2>4
<1> QED  BY <1>1, <1>2, <1>3, <1>4

\* size_position: what is advised fits in what is left of every limit.
LEMMA SizedWithin ==
    ASSUME NEW i, NumericInputs(i)
    PROVE  LET w == SizePosition(i)
           IN  /\ w \in Nat
               /\ w > 0 => /\ w <= MaxPosition
                           /\ w <= Headroom(MaxSector, i.sector_weight)
                           /\ w <= Headroom(i.cash, MinCash)
                           /\ i.strategy \in Speculative =>
                                 w <= Headroom(MaxSpeculative, i.speculative_weight)
<1> DEFINE bounded == Decorrelated(i, RiskCapped(i, Steadied(i, Convinced(i))))
           room == Headroom(MaxSector, i.sector_weight)
           spare == Headroom(MaxSpeculative, i.speculative_weight)
           purse == Headroom(i.cash, MinCash)
           sector == AtMost(bounded, room)
           capped == AtMost(sector, MaxPosition)
           speculated == SpeculationCapped(i, capped)
           affordable == AtMost(speculated, purse)
           liquid == LiquidityCapped(i, affordable)
<1>1. bounded \in Int  BY ScaledIsInt
<1>2. room \in Int /\ spare \in Int /\ purse \in Int
  <2>1. i.sector_weight \in Int /\ i.speculative_weight \in Int /\ i.cash \in Int  BY DEF NumericInputs
  <2>2. MaxSector \in Int /\ MaxSpeculative \in Int /\ MinCash \in Int
    BY DEF MaxSector, MaxSpeculative, MinCash
  <2> QED  BY <2>1, <2>2, HeadroomIsInt
<1>3. Staged(i) = liquid  BY DEF Staged
<1>4. speculated = IF i.strategy \in Speculative THEN AtMost(capped, spare) ELSE capped
  BY DEF SpeculationCapped
<1> HIDE DEF bounded, room, spare, purse
<1>5. sector \in Int /\ sector <= room  BY <1>1, <1>2, AtMostBounds
<1> HIDE DEF sector
<1>6. capped \in Int /\ capped <= sector /\ capped <= MaxPosition
  <2>1. MaxPosition \in Int  BY DEF MaxPosition
  <2> QED  BY <1>5, <2>1, AtMostBounds
<1> HIDE DEF capped
<1>7. speculated \in Int /\ speculated <= capped /\ (i.strategy \in Speculative => speculated <= spare)
  <2>1. AtMost(capped, spare) \in Int /\ AtMost(capped, spare) <= capped /\ AtMost(capped, spare) <= spare
    BY <1>2, <1>6, AtMostBounds
  <2> HIDE DEF speculated
  <2> QED  BY <1>4, <1>6, <2>1
<1> HIDE DEF speculated
<1>8. affordable \in Int /\ affordable <= speculated /\ affordable <= purse
  BY <1>2, <1>7, AtMostBounds
<1> HIDE DEF affordable
<1>9. liquid \in Int /\ liquid <= affordable
  <2>1. CASE Set(i.turnover) /\ i.value > 0
    <3>1. i.turnover \in Int /\ i.value \in Nat \ {0}  BY <2>1 DEF NumericInputs
    <3>2. (1000 * i.turnover) \div i.value \in Int  BY <3>1
    <3> QED  BY <1>8, <2>1, <3>2, AtMostBounds DEF LiquidityCapped
  <2>2. CASE ~ (Set(i.turnover) /\ i.value > 0)  BY <1>8, <2>2 DEF LiquidityCapped
  <2> QED  BY <2>1, <2>2
<1> HIDE DEF liquid
<1>10. Staged(i) \in Int /\ Staged(i) <= affordable  BY <1>3, <1>9
<1>11. SizePosition(i) = 0 \/ (SizePosition(i) = Staged(i) /\ Staged(i) >= MinPosition)
  BY <1>10 DEF SizePosition, MinPosition
<1>12. SizePosition(i) \in Nat /\ (SizePosition(i) > 0 => SizePosition(i) <= affordable)
  BY <1>10, <1>11 DEF MinPosition
<1>13. /\ affordable <= room /\ affordable <= purse /\ affordable <= MaxPosition
       /\ i.strategy \in Speculative => affordable <= spare
  BY <1>2, <1>5, <1>6, <1>7, <1>8 DEF MaxPosition
<1>14. ASSUME SizePosition(i) > 0
       PROVE  /\ SizePosition(i) <= room /\ SizePosition(i) <= purse
              /\ SizePosition(i) <= MaxPosition
              /\ i.strategy \in Speculative => SizePosition(i) <= spare
  BY <1>2, <1>8, <1>12, <1>13, <1>14 DEF MaxPosition
<1> QED  BY <1>12, <1>14 DEF room, purse, spare

\* What is bought fits in: it and what was there before stay in the limit.
LEMMA FitsIn ==
    ASSUME NEW limit \in Int, NEW taken \in Int, NEW w \in Nat, w > 0, w <= Headroom(limit, taken)
    PROVE  taken + w <= limit
  BY DEF Headroom, AtLeast

------------------------------------------------------------------------------
(* What is decided is made of numbers.                                      *)

\* derive_levels: prices, or none.
LEMMA LevelsAreInt ==
    ASSUME NEW chart, NEW price \in Int, NEW direction, chart.atr \in Int,
           IsFiniteSet(chart.supports \cup chart.resistances),
           chart.supports \cup chart.resistances \subseteq Int
    PROVE  LET l == DeriveLevels(chart, price, direction)
           IN  l.entry \in Int /\ l.target \in Int /\ l.invalidation \in Int
<1>1. /\ IsFiniteSet(Above(chart, price)) /\ Above(chart, price) \subseteq Int
      /\ IsFiniteSet(Below(chart, price)) /\ Below(chart, price) \subseteq Int
  <2>1. /\ Above(chart, price) \in SUBSET (chart.supports \cup chart.resistances)
        /\ Below(chart, price) \in SUBSET (chart.supports \cup chart.resistances)
    BY DEF Above, Below
  <2> QED  BY <2>1, FS_Subset
<1>2. None \in Int  BY DEF None
<1>3. ASSUME NEW k \in Int PROVE Ceiling(chart, price, k) \in Int /\ Floor(chart, price, k) \in Int
  <2>1. k * chart.atr \in Int  OBVIOUS
  <2>2. (k * chart.atr) \div 2 \in Int  BY <2>1
  <2>3. price + (k * chart.atr) \div 2 \in Int /\ price - (k * chart.atr) \div 2 \in Int  BY <2>2
  <2>4. Above(chart, price) # {} => Min(Above(chart, price)) \in Int  BY <1>1, ExtremesExist
  <2>5. Below(chart, price) # {} => Max(Below(chart, price)) \in Int  BY <1>1, ExtremesExist
  <2> QED  BY <1>2, <2>3, <2>4, <2>5 DEF Ceiling, Floor
<1>4. /\ Ceiling(chart, price, 8) \in Int /\ Floor(chart, price, 8) \in Int
      /\ Ceiling(chart, price, 5) \in Int /\ Floor(chart, price, 5) \in Int
  BY <1>3
<1> QED  BY <1>2, <1>4 DEF DeriveLevels

\* What sizing reads of a decision.
Numbered(d) ==
    /\ {d.conviction, d.volatility, d.turnover} \subseteq Int
    /\ {d.levels.entry, d.levels.target, d.levels.invalidation} \subseteq Int

LEMMA DecisionNumbered ==
    ASSUME stored \in Universes, NEW n \in DOMAIN stored, NEW output,
           run.analyses[n] = Analysed[stored][n]
    PROVE  Numbered(Decision(n, output))
<1> DEFINE d == Decision(n, output)
           a == run.analyses[n]
           t == a.technical
           last == LastClose(stored[n])
           price == IF last = NA THEN None ELSE last
           chart == Chart(t)
           thesis == ThesisInput(n, DeriveAction(Pack(n), Held(n), output).action)
           way == DirectionOf(thesis)
<1>1. Fake(d)  BY DecisionFake
<1>2. /\ last \in Int /\ a.turnover \in Int /\ t.volatility \in Int /\ t.atr \in Int
      /\ IsFiniteSet(t.supports \cup t.resistances) /\ t.supports \cup t.resistances \subseteq Int
  <2>1. FiguresOf(stored[n], a) /\ Stored(stored[n])  BY FiguresAreNumbers, UniverseStored
  <2> QED  BY <2>1, LastCloseInt DEF FiguresOf
<1>3. /\ d.volatility = t.volatility /\ d.turnover = a.turnover
      /\ d.levels = DeriveLevels(chart, price, way)
  BY DEF Decision
<1>4. chart.supports = t.supports /\ chart.resistances = t.resistances /\ chart.atr = Max({0, t.atr})
  BY DEF Chart
<1> HIDE DEF d, a, t, last, chart, way
<1>5. chart.atr \in Int
  <2>1. 0 \in Int  OBVIOUS
  <2> QED  BY <1>2, <1>4, <2>1, MaxOfTwo
<1>6. price \in Int  BY <1>2 DEF None
<1> HIDE DEF price
<1>7. d.levels.entry \in Int /\ d.levels.target \in Int /\ d.levels.invalidation \in Int
  BY <1>2, <1>3, <1>4, <1>5, <1>6, LevelsAreInt
<1>8. Numbered(d)  BY <1>1, <1>2, <1>3, <1>7 DEF Fake, Numbered
<1> QED  BY <1>8 DEF d
------------------------------------------------------------------------------
(* The limits.  The advice that waits is the one sizing gives as things     *)
(* stand, so what it leaves room for is still there when it is followed;    *)
(* what the order costs comes on top.                                       *)

WorthOf(values, names) == MapThenSumSet(LAMBDA n : values[n], names)

LEMMA WorthIs ==
    ASSUME NEW values, NEW S, IsFiniteSet(S), \A n \in S : values[n] \in Int
    PROVE  WorthOf(values, S) = Sigma(values, S) /\ WorthOf(values, S) \in Int
<1>1. WorthOf(values, S) = Carries!Summed(values, S)
  BY DEF WorthOf, Carries!Summed, MapThenSumSet, MapThenFoldSet, Carries!MapThenSumSet,
         Carries!MapThenFoldSet
<1>2. Carries!IsFiniteSet(S)  BY SameFinite
<1>3. Carries!Summed(values, S) = Sigma(values, S)  BY <1>2, Carries!SummedIs DEF Sigma
<1>4. Sigma(values, S) \in Int  BY <1>2, Carries!SumInt DEF Sigma
<1> QED  BY <1>1, <1>3, <1>4

\* One position changes, comes or goes.
LEMMA WorthMoves ==
    ASSUME NEW before, NEW S, IsFiniteSet(S), \A n \in S : before[n] \in Int,
           NEW after, NEW R, IsFiniteSet(R), \A n \in R : after[n] \in Int,
           NEW a, R \ {a} = S \ {a}, \A n \in S \ {a} : after[n] = before[n]
    PROVE  WorthOf(after, R) = WorthOf(before, S) + (IF a \in R THEN after[a] ELSE 0)
                                                  - (IF a \in S THEN before[a] ELSE 0)
<1>1. WorthOf(before, S) = Sigma(before, S) /\ WorthOf(after, R) = Sigma(after, R)  BY WorthIs
<1>2. Carries!IsFiniteSet(S)  BY SameFinite
<1>3. Sigma(after, R) = Sigma(before, S) + (IF a \in R THEN after[a] ELSE 0)
                                         - (IF a \in S THEN before[a] ELSE 0)
  BY <1>2, Carries!SumMoves DEF Sigma
<1> QED  BY <1>1, <1>3

Book(held) == IsFiniteSet(DOMAIN held) /\ \A n \in DOMAIN held : held[n].quantity \in Nat

\* What is advised now of the name that waits.
SizedNow ==
    \E c \in Correlated :
        /\ advice.weight = SizePosition(SizingInputs(advice.name, c))
        /\ advice.quantity = Quantity(advice.weight, decisions[advice.name].levels.entry)

PortfolioInv ==
    /\ RunInv
    /\ \A n \in DOMAIN decisions : Numbered(decisions[n])
    /\ run.phase # "idle" => advice = NoAdvice
    /\ advice # NoAdvice => advice.name \in DOMAIN decisions \cap DOMAIN stored /\ SizedNow
    /\ cash \in Int
    /\ Book(positions)

LEMMA LatestPriceInt == ASSUME stored \in Universes, NEW n PROVE LatestPrice(n) \in Int
<1>1. CASE n \in DOMAIN stored /\ stored[n].bars # <<>>
  <2> DEFINE bars == stored[n].bars
  <2>1. bars \in Seq(StoredBar) /\ bars # <<>>  BY <1>1, UniverseStored DEF Stored
  <2>2. LatestPrice(n) = bars[Len(bars)].close  BY <1>1 DEF LatestPrice
  <2> HIDE DEF bars
  <2>3. bars[Len(bars)] \in StoredBar  BY <2>1
  <2> QED  BY <2>2, <2>3 DEF StoredBar, Filed
<1>2. CASE ~ (n \in DOMAIN stored /\ stored[n].bars # <<>>)
  BY <1>2, NAIsInt DEF LatestPrice
<1> QED  BY <1>1, <1>2

LEMMA ValuesInt ==
    ASSUME stored \in Universes, Book(positions)
    PROVE  /\ DOMAIN MarketValues = DOMAIN positions
           /\ \A n \in DOMAIN positions :
                 /\ MarketValues[n] \in Int
                 /\ Tradable(n) => MarketValues[n] = LatestPrice(n) * positions[n].quantity
<1>1. DOMAIN MarketValues = DOMAIN positions  BY DEF MarketValues
<1>2. ASSUME NEW n \in DOMAIN positions
      PROVE  /\ MarketValues[n] \in Int
             /\ Tradable(n) => MarketValues[n] = LatestPrice(n) * positions[n].quantity
  <2>1. LatestPrice(n) \in Int /\ positions[n].quantity \in Int  BY LatestPriceInt DEF Book
  <2>2. LatestPrice(n) * positions[n].quantity \in Int  BY <2>1
  <2>3. MarketValues[n] = IF Known(LatestPrice(n)) THEN LatestPrice(n) * positions[n].quantity ELSE 0
    BY DEF MarketValues
  <2> QED  BY <2>2, <2>3 DEF Tradable
<1> QED  BY <1>1, <1>2

\* The totals that sizing reads.
LEMMA TotalsInt ==
    ASSUME PortfolioInv
    PROVE  /\ TotalValue \in Int /\ CashShare \in Int
           /\ \A S \in SUBSET DOMAIN positions :
                 IsFiniteSet(S) /\ Worth(S) = WorthOf(MarketValues, S) /\ Worth(S) \in Int
                 /\ Taken(S) \in Int
<1>1. stored \in Universes /\ Book(positions) /\ cash \in Int  BY DEF PortfolioInv, RunInv
<1>2. ASSUME NEW S \in SUBSET DOMAIN positions
      PROVE  IsFiniteSet(S) /\ Worth(S) = WorthOf(MarketValues, S) /\ Worth(S) \in Int
  <2>1. IsFiniteSet(S)  BY <1>1, FS_Subset DEF Book
  <2>2. Worth(S) = WorthOf(MarketValues, S)  BY DEF Worth, WorthOf
  <2>3. \A n \in S : MarketValues[n] \in Int  BY <1>1, ValuesInt
  <2>4. WorthOf(MarketValues, S) \in Int  BY <2>1, <2>3, WorthIs
  <2> QED  BY <2>1, <2>2, <2>4
<1>3. TotalValue \in Int
  <2>1. Worth(DOMAIN positions) \in Int  BY <1>2
  <2> QED  BY <1>1, <2>1 DEF TotalValue
<1>4. CashShare \in Int
  <2>1. 10000 * cash \in Int  BY <1>1
  <2> QED  BY <1>3, <2>1 DEF CashShare
<1>5. ASSUME NEW S \in SUBSET DOMAIN positions PROVE Taken(S) \in Int
  <2>1. -10000 * Worth(S) \in Int  BY <1>2
  <2>2. TotalValue > 0 => (-10000 * Worth(S)) \div TotalValue \in Int  BY <1>3, <2>1
  <2> QED  BY <2>2 DEF Taken
<1> QED  BY <1>2, <1>3, <1>4, <1>5

\* Neither a sector nor speculation has other names than those held.
LEMMA PartsHeld ==
    /\ \A s : InSector(s) \in SUBSET DOMAIN positions
    /\ Speculated \in SUBSET DOMAIN positions
  BY DEF InSector, Speculated

LEMMA InputsNumeric ==
    ASSUME PortfolioInv, NEW n \in DOMAIN decisions, NEW c \in Correlated
    PROVE  NumericInputs(SizingInputs(n, c))
<1> DEFINE i == SizingInputs(n, c)
           d == decisions[n]
<1>1. Numbered(d)  BY DEF PortfolioInv
<1>2. /\ i.conviction = d.conviction /\ i.entry = Unread(d.levels.entry)
      /\ i.stop = Unread(d.levels.invalidation)
      /\ i.volatility = Unread(d.volatility) /\ i.turnover = Unread(d.turnover)
      /\ i.correlated = c /\ i.cash = CashShare /\ i.value = TotalValue \div 1000
      /\ i.sector_weight = Taken(InSector(stored[n].sector))
      /\ i.speculative_weight = Taken(Speculated)
  BY DEF SizingInputs
<1>3. \A x \in Int : Unread(x) \in Int  BY DEF Unread, Unset
<1>4. c \in Int  BY DeskAssumption
<1>5. Taken(InSector(stored[n].sector)) \in Int /\ Taken(Speculated) \in Int
  BY PartsHeld, TotalsInt
<1>6. CashShare \in Int /\ TotalValue \div 1000 \in Int
  <2>1. TotalValue \in Int /\ CashShare \in Int  BY TotalsInt
  <2> QED  BY <2>1
<1> HIDE DEF i, d
<1>7. {i.conviction, i.entry, i.stop, i.volatility, i.turnover, i.correlated} \subseteq Int
  BY <1>1, <1>2, <1>3, <1>4 DEF Numbered
<1>8. {i.sector_weight, i.cash, i.speculative_weight, i.value} \subseteq Int
  BY <1>2, <1>5, <1>6
<1>9. NumericInputs(i)  BY <1>7, <1>8 DEF NumericInputs
<1> QED  BY <1>9 DEF i

\* What waits to be bought fits into the limits, before it costs anything.
LEMMA AdviceFits ==
    ASSUME PortfolioInv, advice.quantity > 0
    PROVE  LET n == advice.name
               w == advice.weight
               e == decisions[n].levels.entry
           IN  /\ n \in DOMAIN decisions \cap DOMAIN stored
               /\ w \in Nat /\ w <= MaxPosition
               /\ e \in Int /\ e > 0
               /\ advice.quantity = (w * TotalValue) \div (10000 * e)
               /\ w + MinCash <= CashShare
               /\ w + Taken(InSector(stored[n].sector)) <= MaxSector
               /\ decisions[n].strategy \in Speculative => w + Taken(Speculated) <= MaxSpeculative
<1> DEFINE n == advice.name
           w == advice.weight
           e == decisions[n].levels.entry
           sector == Taken(InSector(stored[n].sector))
           spec == Taken(Speculated)
<1>1. advice # NoAdvice  BY DEF NoAdvice
<1>2. n \in DOMAIN decisions /\ n \in DOMAIN stored  BY <1>1 DEF PortfolioInv
<1>3. PICK c \in Correlated : w = SizePosition(SizingInputs(n, c)) /\ advice.quantity = Quantity(w, e)
  BY <1>1 DEF PortfolioInv, SizedNow
<1> DEFINE i == SizingInputs(n, c)
<1>4. NumericInputs(i)  BY <1>2, InputsNumeric
<1>5. /\ i.sector_weight = sector /\ i.cash = CashShare /\ i.speculative_weight = spec
      /\ i.strategy = decisions[n].strategy
  BY DEF SizingInputs
<1>6. e \in Int  BY <1>2 DEF PortfolioInv, Numbered
<1>7. TotalValue \in Int  BY TotalsInt
<1>8. w = SizePosition(i)  BY <1>3
<1> HIDE DEF i, sector, spec, n
<1>9. /\ w \in Nat
      /\ w > 0 => /\ w <= MaxPosition
                  /\ w <= Headroom(MaxSector, i.sector_weight)
                  /\ w <= Headroom(i.cash, MinCash)
                  /\ i.strategy \in Speculative => w <= Headroom(MaxSpeculative, i.speculative_weight)
  BY <1>4, <1>8, SizedWithin
<1> HIDE DEF w, e
<1>10. e > 0 /\ advice.quantity = (w * TotalValue) \div (10000 * e)  BY <1>3 DEF Quantity
<1>11. w > 0
  <2> SUFFICES ASSUME w = 0 PROVE FALSE  BY <1>9
  <2>1. w * TotalValue = 0 /\ 10000 * e > 0 /\ 10000 * e \in Int  BY <1>6, <1>7, <1>10
  <2>2. advice.quantity = 0  BY <1>10, <2>1
  <2> QED  BY <2>2
<1>12. sector \in Int /\ spec \in Int /\ CashShare \in Int  BY <1>4, <1>5 DEF NumericInputs
<1>13. MaxSector \in Int /\ MaxSpeculative \in Int /\ MinCash \in Int
  BY DEF MaxSector, MaxSpeculative, MinCash
<1>14. sector + w <= MaxSector  BY <1>5, <1>9, <1>11, <1>12, <1>13, FitsIn
<1>15. MinCash + w <= CashShare  BY <1>5, <1>9, <1>11, <1>12, <1>13, FitsIn
<1>16. decisions[n].strategy \in Speculative => spec + w <= MaxSpeculative
  BY <1>5, <1>9, <1>11, <1>12, <1>13, FitsIn
<1>17. /\ w + MinCash <= CashShare /\ w + sector <= MaxSector
       /\ decisions[n].strategy \in Speculative => w + spec <= MaxSpeculative
  BY <1>9, <1>12, <1>13, <1>14, <1>15, <1>16
<1> QED  BY <1>2, <1>6, <1>9, <1>10, <1>11, <1>17 DEF w, e, n, sector, spec

\* execute_trade: what slippage and commission take of a purchase.
LEMMA CostBounds ==
    ASSUME NEW x \in Nat
    PROVE  /\ CostOf(x) \in Int /\ CostOf(x) >= x
           /\ 100000000 * (CostOf(x) - x) <= 350300 * x
<1> DEFINE s == (15 * x) \div 10000
           c == (20 * (x + s)) \div 10000
<1>1. s \in Int /\ s >= 0 /\ 10000 * s <= 15 * x  OBVIOUS
<1>2. CostOf(x) = (x + s) + c
  BY DEF CostOf, Slippage, Commission, SlippageRate, CommissionRate
<1> HIDE DEF s
<1>3. c \in Int /\ c >= 0 /\ 10000 * c <= 20 * (x + s)  BY <1>1
<1> HIDE DEF c
<1>4. 100000000 * (s + c) <= 350300 * x  BY <1>1, <1>3
<1> QED  BY <1>1, <1>2, <1>3, <1>4

\* What a purchase does to the portfolio.
LEMMA BuyMoves ==
    ASSUME PortfolioInv, NEW n, NEW q \in Nat, NEW strategy, Buy(n, q, strategy)
    PROVE  LET p == LatestPrice(n)
           IN  /\ p \in Int /\ p > 0
               /\ Book(positions') /\ cash' \in Int /\ cash' = cash - CostOf(p * q)
               /\ DOMAIN positions' = DOMAIN positions \cup {n}
               /\ \A m \in DOMAIN positions \ {n} : positions'[m] = positions[m]
               /\ positions'[n].quantity = q + (IF Held(n) THEN positions[n].quantity ELSE 0)
               /\ positions'[n].strategy = strategy
               /\ positions'[n].sector = IF Held(n) THEN positions[n].sector ELSE stored[n].sector
<1> DEFINE p == LatestPrice(n)
           cost == CostOf(p * q)
           grown == Grown(n, q, strategy)
<1>1. /\ positions' = Put(positions, n, grown) /\ cash' = cash + (-cost)
      /\ Known(p) /\ p > 0
  BY DEF Buy, Fill, Tradable
<1>2. p \in Int  BY LatestPriceInt DEF PortfolioInv, RunInv
<1>3. /\ grown.quantity = q + (IF Held(n) THEN positions[n].quantity ELSE 0)
      /\ grown.strategy = strategy
      /\ grown.sector = IF Held(n) THEN positions[n].sector ELSE stored[n].sector
  BY DEF Grown
<1>4. p * q \in Nat
  <2> HIDE DEF p
  <2> QED  BY <1>1, <1>2
<1>5. cost \in Int  BY <1>4, CostBounds
<1> HIDE DEF grown, cost, p
<1>6. /\ DOMAIN positions' = DOMAIN positions \cup {n} /\ positions'[n] = grown
      /\ \A m \in DOMAIN positions \ {n} : positions'[m] = positions[m]
  BY <1>1 DEF Put
<1>7. Book(positions) /\ cash \in Int  BY DEF PortfolioInv
<1>8. grown.quantity \in Nat  BY <1>3, <1>7 DEF Book, Held
<1>9. Book(positions')
  <2>1. IsFiniteSet(DOMAIN positions')  BY <1>6, <1>7, FS_AddElement DEF Book
  <2>2. \A m \in DOMAIN positions' : positions'[m].quantity \in Nat  BY <1>6, <1>7, <1>8 DEF Book
  <2> QED  BY <2>1, <2>2 DEF Book
<1>10. cash' \in Int /\ cash' = cash - cost  BY <1>1, <1>5, <1>7
<1> QED  BY <1>1, <1>2, <1>3, <1>6, <1>9, <1>10 DEF p, cost

\* The cost of what a weight pays, of a portfolio worth T.
LEMMA CostFits ==
    ASSUME NEW T \in Int, T > 0, NEW w \in Nat, w <= 2000, NEW x \in Nat, 10000 * x <= w * T,
           NEW k \in Nat, 100000000 * k <= 350300 * x
    PROVE  9507 * k <= 7 * T /\ k < T
<1>1. w * T <= 2000 * T
  <2>1. 2000 - w \in Nat  OBVIOUS
  <2>2. (2000 - w) * T >= 0  BY <2>1
  <2>3. (2000 - w) * T = 2000 * T - w * T  OBVIOUS
  <2>4. w * T \in Int  OBVIOUS
  <2> QED  BY <2>2, <2>3, <2>4
<1> DEFINE y == w * T
<1>2. y \in Int /\ y <= 2000 * T /\ 10000 * x <= y  BY <1>1
<1> HIDE DEF y
<1>3. 9507 * k <= 7 * T  BY <1>2
<1> QED  BY <1>3

\* The whole shares that a weight pays are worth no more than it.
LEMMA SharesFit ==
    ASSUME NEW budget \in Nat, NEW e \in Nat, e > 0, NEW p \in Nat, p <= e
    PROVE  LET q == budget \div (10000 * e)
           IN  q \in Nat /\ 10000 * (p * q) <= budget
<1> DEFINE d == 10000 * e
           q == budget \div d
<1>1. d \in Nat /\ d > 0  OBVIOUS
<1>2. q \in Nat /\ q * d <= budget
  <2> HIDE DEF d
  <2> QED  BY <1>1
<1> HIDE DEF q
<1>3. q * d = 10000 * (e * q)  BY <1>2
<1>4. p * q <= e * q
  <2>1. (e - p) * q >= 0  BY <1>2
  <2>2. (e - p) * q = e * q - p * q  BY <1>2
  <2>3. e * q \in Int /\ p * q \in Int  BY <1>2
  <2> QED  BY <2>1, <2>2, <2>3
<1>5. p * q \in Int /\ e * q \in Int  BY <1>2
<1> DEFINE a == p * q
           b == e * q
<1>6. 10000 * a <= 10000 * b
  <2>1. a \in Int /\ b \in Int /\ a <= b  BY <1>4, <1>5
  <2> HIDE DEF a, b
  <2> QED  BY <2>1
<1>7. 10000 * (p * q) <= budget  BY <1>2, <1>3, <1>5, <1>6
<1> QED  BY <1>2, <1>7 DEF q

\* A share rounded up covers what it is a share of, and is within a limit that
\* covers that.
LEMMA RoundedUp ==
    ASSUME NEW s \in Int, NEW t \in Int, t > 0, NEW limit \in Int
    PROVE  LET up == -((-10000 * s) \div t)
           IN  /\ 10000 * s <= up * t
               /\ 10000 * s <= limit * t => up <= limit
<1> DEFINE m == -10000 * s
           d == m \div t
<1>1. m \in Int /\ m = -(10000 * s)  OBVIOUS
<1> HIDE DEF m
<1>2. d \in Int /\ d * t <= m /\ m < (d + 1) * t  BY <1>1
<1> HIDE DEF d
<1>3. d * t \in Int /\ (-d) * t = -(d * t)  BY <1>2
<1>4. 10000 * s <= (-d) * t  BY <1>1, <1>2, <1>3
<1>5. ASSUME 10000 * s <= limit * t PROVE -d <= limit
  <2> SUFFICES ASSUME limit + d + 1 <= 0 PROVE FALSE  BY <1>2
  <2>1. (limit + d + 1) * t <= 0  BY <1>2
  <2>2. (limit + d + 1) * t = limit * t + (d + 1) * t  BY <1>2
  <2>3. limit * t \in Int /\ (d + 1) * t \in Int  BY <1>2
  <2> QED  BY <1>1, <1>2, <1>5, <2>1, <2>2, <2>3
<1> QED  BY <1>4, <1>5 DEF d, m

\* A purchase of x for k more, and what is in a part of the portfolio, after it.
LEMMA PartFits ==
    ASSUME NEW T \in Int, T > 0, NEW w \in Int, NEW x \in Int, 10000 * x <= w * T,
           NEW k \in Nat, 9507 * k <= 7 * T,
           NEW S \in Int, NEW t \in Int, 10000 * S <= t * T,
           NEW limit \in Int, limit <= 3000, t + w <= limit
    PROVE  10000 * (S + x) <= (limit + 7) * (T - k)
<1>1. (t + w) * T <= limit * T
  <2>1. (limit - (t + w)) * T >= 0  OBVIOUS
  <2>2. (limit - (t + w)) * T = limit * T - (t + w) * T  OBVIOUS
  <2>3. limit * T \in Int /\ (t + w) * T \in Int  OBVIOUS
  <2> QED  BY <2>1, <2>2, <2>3
<1>2. (t + w) * T = t * T + w * T  OBVIOUS
<1>3. 10000 * (S + x) <= limit * T
  <2>1. t * T \in Int /\ w * T \in Int /\ limit * T \in Int  OBVIOUS
  <2> QED  BY <1>1, <1>2, <2>1
<1>4. (limit + 7) * k <= 7 * T
  <2>1. (3000 - limit) * k >= 0  OBVIOUS
  <2>2. (3000 - limit) * k = 3007 * k - (limit + 7) * k  OBVIOUS
  <2>3. (limit + 7) * k \in Int  OBVIOUS
  <2> QED  BY <2>1, <2>2, <2>3
<1>5. (limit + 7) * (T - k) = limit * T + 7 * T - (limit + 7) * k  OBVIOUS
<1>6. limit * T \in Int /\ (limit + 7) * k \in Int  OBVIOUS
<1> QED  BY <1>3, <1>4, <1>5, <1>6

\* And what is left of the cash.
LEMMA CashFits ==
    ASSUME NEW T \in Int, NEW w \in Int, NEW x \in Int, 10000 * x <= w * T,
           NEW k \in Nat, 9507 * k <= 7 * T,
           NEW c \in Int, (w + 500) * T <= 10000 * c
    PROVE  10000 * ((c - x) - k) >= 493 * (T - k)
<1>1. (w + 500) * T = w * T + 500 * T  OBVIOUS
<1>2. w * T \in Int  OBVIOUS
<1> QED  BY <1>1, <1>2

\* What the portfolio is worth after a purchase, and its parts.
LEMMA BuyWorths ==
    ASSUME PortfolioInv, NEW n, NEW q \in Nat, NEW strategy, Buy(n, q, strategy)
    PROVE  LET x == LatestPrice(n) * q
               was == IF Held(n) THEN MarketValues[n] ELSE 0
           IN  /\ was \in Nat
               /\ TotalValue' = TotalValue - (CostOf(x) - x)
               /\ \A S, R :
                     S \subseteq DOMAIN positions /\ R \subseteq DOMAIN positions'
                     /\ R \ {n} = S \ {n} =>
                        WorthOf(MarketValues', R) = WorthOf(MarketValues, S)
                            + (IF n \in R THEN x + was ELSE 0) - (IF n \in S THEN was ELSE 0)
<1> DEFINE p == LatestPrice(n)
           x == p * q
           had == Held(n)
           was == IF had THEN MarketValues[n] ELSE 0
<1>1. /\ p \in Int /\ p > 0
      /\ Book(positions') /\ cash' \in Int /\ cash' = cash - CostOf(x)
      /\ DOMAIN positions' = DOMAIN positions \cup {n}
      /\ \A m \in DOMAIN positions \ {n} : positions'[m] = positions[m]
      /\ positions'[n].quantity = q + (IF had THEN positions[n].quantity ELSE 0)
  BY BuyMoves
<1>2. Tradable(n) /\ stored' = stored  BY DEF Buy, Fill
<1>3. stored \in Universes /\ Book(positions) /\ cash \in Int  BY DEF PortfolioInv, RunInv
<1>4. \A m : LatestPrice(m)' = LatestPrice(m)  BY <1>2 DEF LatestPrice
<1>5. /\ DOMAIN MarketValues' = DOMAIN positions'
      /\ \A m \in DOMAIN positions' :
            MarketValues'[m] = IF Known(LatestPrice(m)) THEN LatestPrice(m) * positions'[m].quantity
                               ELSE 0
  <2>1. MarketValues' = [m \in DOMAIN positions' |->
                           IF Known(LatestPrice(m)') THEN LatestPrice(m)' * positions'[m].quantity
                           ELSE 0]
    BY DEF MarketValues
  <2> QED  BY <1>4, <2>1
<1>6. /\ DOMAIN MarketValues = DOMAIN positions
      /\ \A m \in DOMAIN positions :
            MarketValues[m] = IF Known(LatestPrice(m)) THEN LatestPrice(m) * positions[m].quantity
                              ELSE 0
  BY DEF MarketValues
<1>7. \A m \in DOMAIN positions : MarketValues[m] \in Int  BY <1>3, ValuesInt
<1>8. Known(p)  BY <1>2 DEF Tradable
<1>9. had => n \in DOMAIN positions /\ was = p * positions[n].quantity /\ positions[n].quantity \in Nat
  BY <1>3, <1>6, <1>8 DEF Held, Book
<1>10. ~ had => was = 0  OBVIOUS
<1>11. n \in DOMAIN positions <=> had  BY DEF Held
<1>12. MarketValues'[n] = p * positions'[n].quantity  BY <1>1, <1>5, <1>8
<1>13. \A m \in DOMAIN positions \ {n} : MarketValues'[m] = MarketValues[m]  BY <1>1, <1>5, <1>6
<1> HIDE DEF p, was, had
<1>14. x \in Int /\ was \in Nat /\ MarketValues'[n] = x + was
  <2>1. CASE had
    <3> DEFINE r == positions[n].quantity
    <3>1. r \in Nat /\ was = p * r /\ positions'[n].quantity = q + r  BY <1>1, <1>9, <2>1
    <3> HIDE DEF r
    <3>2. p * (q + r) = p * q + p * r /\ p * q \in Int /\ p * r \in Nat  BY <1>1, <3>1
    <3> QED  BY <1>12, <3>1, <3>2
  <2>2. CASE ~ had
    <3>1. positions'[n].quantity = q /\ was = 0  BY <1>1, <1>10, <2>2
    <3>2. p * q \in Int  BY <1>1
    <3> QED  BY <1>12, <3>1, <3>2
  <2> QED  BY <2>1, <2>2
<1> HIDE DEF x
<1>15. \A m \in DOMAIN positions' : MarketValues'[m] \in Int  BY <1>1, <1>7, <1>13, <1>14
<1>16. ASSUME NEW S, NEW R, S \subseteq DOMAIN positions, R \subseteq DOMAIN positions',
              R \ {n} = S \ {n}
       PROVE  WorthOf(MarketValues', R) = WorthOf(MarketValues, S)
                   + (IF n \in R THEN x + was ELSE 0) - (IF n \in S THEN was ELSE 0)
  <2> DEFINE before == MarketValues
             after == MarketValues'
  <2>1. IsFiniteSet(S) /\ IsFiniteSet(R)  BY <1>1, <1>3, <1>16, FS_Subset DEF Book
  <2>2. /\ \A m \in S : before[m] \in Int
        /\ \A m \in R : after[m] \in Int
        /\ \A m \in S \ {n} : after[m] = before[m]
    BY <1>7, <1>13, <1>15, <1>16
  <2>3. n \in S => before[n] = was
    <3> SUFFICES ASSUME n \in S PROVE before[n] = was  OBVIOUS
    <3>1. had  BY <1>11, <1>16
    <3> QED  BY <3>1 DEF was
  <2>4. after[n] = x + was  BY <1>14
  <2> HIDE DEF before, after
  <2>5. WorthOf(after, R) = WorthOf(before, S) + (IF n \in R THEN after[n] ELSE 0)
                                               - (IF n \in S THEN before[n] ELSE 0)
    BY <1>16, <2>1, <2>2, WorthMoves
  <2>6. WorthOf(after, R) = WorthOf(before, S) + (IF n \in R THEN x + was ELSE 0)
                                               - (IF n \in S THEN was ELSE 0)
    BY <2>3, <2>4, <2>5
  <2> QED  BY <2>6 DEF before, after
<1>17. TotalValue' = TotalValue - (CostOf(x) - x)
  <2> DEFINE S == DOMAIN positions
             R == DOMAIN positions'
  <2>1. R \ {n} = S \ {n} /\ n \in R /\ (n \in S <=> had)  BY <1>1, <1>11
  <2>2. WorthOf(MarketValues', R) = WorthOf(MarketValues, S) + (x + was) - (IF had THEN was ELSE 0)
    <3>1. S \subseteq DOMAIN positions /\ R \subseteq DOMAIN positions'  OBVIOUS
    <3> HIDE DEF S, R
    <3> QED  BY <1>16, <2>1, <3>1
  <2>3. TotalValue' = cash' + WorthOf(MarketValues', R)
    BY DEF TotalValue, Worth, WorthOf, MapThenSumSet, MapThenFoldSet
  <2>4. TotalValue = cash + WorthOf(MarketValues, S)  BY DEF TotalValue, Worth, WorthOf
  <2>5. WorthOf(MarketValues, S) \in Int
    <3>1. S \in SUBSET DOMAIN positions  OBVIOUS
    <3> HIDE DEF S
    <3> QED  BY <3>1, TotalsInt
  <2>6. x \in Nat
    <3> QED  BY <1>1 DEF x
  <2>7. CostOf(x) \in Int  BY <2>6, CostBounds
  <2>8. ~ had => was = 0  BY <1>10
  <2> HIDE DEF S, R
  <2> QED  BY <1>1, <1>3, <1>14, <2>2, <2>3, <2>4, <2>5, <2>6, <2>7, <2>8
<1> QED  BY <1>14, <1>16, <1>17 DEF x, p, was, had

\* Following the advice keeps every limit it could keep.
LEMMA FollowWithin == ASSUME PortfolioInv, Follow PROVE WithinLimits
<1> DEFINE n == advice.name
           w == advice.weight
           q == advice.quantity
           e == decisions[n].levels.entry
           p == LatestPrice(n)
           x == p * q
           k == CostOf(x) - x
           T == TotalValue
           had == Held(n)
           was == IF had THEN MarketValues[n] ELSE 0
           strategy == decisions[n].strategy
           sector == Taken(InSector(stored[n].sector))
           spec == Taken(Speculated)
<1> HIDE DEF n, w, q, e, p, x, k, T, had, was, strategy, sector, spec
<1> SUFFICES ASSUME ~ Repriced(n) PROVE WithinLimits  BY DEF WithinLimits, n
<1>1. /\ w \in Nat /\ w <= MaxPosition /\ e \in Int /\ e > 0
      /\ q = (w * T) \div (10000 * e)
      /\ w + MinCash <= CashShare
      /\ w + sector <= MaxSector
      /\ strategy \in Speculative => w + spec <= MaxSpeculative
  BY AdviceFits DEF Follow, n, w, q, e, T, strategy, sector, spec
<1>2. q > 0 /\ Buy(n, q, strategy)  BY DEF Follow, n, q, strategy
<1>3. /\ T \in Int /\ CashShare \in Int
      /\ \A S \in SUBSET DOMAIN positions :
            IsFiniteSet(S) /\ Worth(S) = WorthOf(MarketValues, S) /\ Worth(S) \in Int
            /\ Taken(S) \in Int
      /\ cash \in Int
  BY TotalsInt DEF PortfolioInv, T
<1>4. T > 0
  <2> SUFFICES ASSUME ~ (T > 0) PROVE FALSE  OBVIOUS
  <2>1. CashShare = 0  BY DEF CashShare, T
  <2> QED  BY <1>1, <2>1 DEF MinCash
<1>5. p \in Int /\ p > 0 /\ p <= e
  <2>1. p \in Int  BY LatestPriceInt DEF PortfolioInv, RunInv, p
  <2>2. p > 0  BY <1>2 DEF Buy, Tradable, p
  <2>3. p <= e
    <3>1. ~ (p > e)  BY DEF Repriced, p, e
    <3> QED  BY <1>1, <2>1, <3>1
  <2> QED  BY <2>1, <2>2, <2>3
<1>6. q \in Nat /\ x \in Nat /\ 10000 * x <= w * T
  <2> DEFINE budget == w * T
  <2>1. budget \in Nat  BY <1>1, <1>3, <1>4
  <2>2. q = budget \div (10000 * e)  BY <1>1
  <2>3. e \in Nat /\ p \in Nat  BY <1>1, <1>5
  <2>4. e > 0 /\ p <= e  BY <1>1, <1>5
  <2> HIDE DEF budget
  <2>5. budget \div (10000 * e) \in Nat /\ 10000 * (p * (budget \div (10000 * e))) <= budget
    BY <2>1, <2>3, <2>4, SharesFit
  <2>6. q \in Nat /\ 10000 * (p * q) <= budget  BY <2>2, <2>5
  <2>7. p * q \in Nat  BY <2>3, <2>6
  <2> QED  BY <2>6, <2>7 DEF budget, x
<1>7. /\ was \in Nat /\ TotalValue' = T - k
      /\ \A S, R :
            S \subseteq DOMAIN positions /\ R \subseteq DOMAIN positions'
            /\ R \ {n} = S \ {n} =>
               WorthOf(MarketValues', R) = WorthOf(MarketValues, S)
                   + (IF n \in R THEN x + was ELSE 0) - (IF n \in S THEN was ELSE 0)
  <2> QED  BY <1>2, <1>6, BuyWorths DEF x, k, was, T, had, p
<1>8. /\ cash' \in Int /\ cash' = cash - CostOf(x)
      /\ DOMAIN positions' = DOMAIN positions \cup {n}
      /\ \A m \in DOMAIN positions \ {n} : positions'[m] = positions[m]
      /\ positions'[n].strategy = strategy
      /\ positions'[n].sector = IF had THEN positions[n].sector ELSE stored[n].sector
  <2>1. q \in Nat  BY <1>6
  <2>2. /\ cash' \in Int /\ cash' = cash - CostOf(LatestPrice(n) * q)
        /\ DOMAIN positions' = DOMAIN positions \cup {n}
        /\ \A m \in DOMAIN positions \ {n} : positions'[m] = positions[m]
        /\ positions'[n].strategy = strategy
        /\ positions'[n].sector = IF Held(n) THEN positions[n].sector ELSE stored[n].sector
    BY <1>2, <2>1, BuyMoves
  <2> QED  BY <2>2 DEF x, had, p
<1>9. had <=> n \in DOMAIN positions  BY DEF Held, had
<1>10. k \in Nat /\ 100000000 * k <= 350300 * x /\ CostOf(x) = x + k
  <2> QED  BY <1>6, CostBounds DEF k
<1>11. 9507 * k <= 7 * T /\ k < T
  <2>1. w <= 2000  BY <1>1 DEF MaxPosition
  <2> QED  BY <1>1, <1>3, <1>4, <1>6, <1>10, <2>1, CostFits
<1>12. TotalValue' \in Int /\ TotalValue' > 0  BY <1>3, <1>7, <1>10, <1>11
<1>13. Slack = 7  BY DEF Slack, SlippageRate, CommissionRate, MaxPosition
<1>14. 10000 * cash' >= (MinCash - Slack) * TotalValue'
  <2>1. (w + 500) * T <= 10000 * cash
    <3> DEFINE m == 10000 * cash
    <3>1. CashShare = m \div T  BY <1>4 DEF CashShare, T
    <3>2. m \in Int  BY <1>3
    <3> HIDE DEF m, T, w
    <3>3. CashShare * T <= m  BY <1>3, <1>4, <3>1, <3>2
    <3>4. (CashShare - (w + 500)) * T >= 0  BY <1>1, <1>3, <1>4 DEF MinCash
    <3>5. (CashShare - (w + 500)) * T = CashShare * T - (w + 500) * T  BY <1>1, <1>3
    <3>6. CashShare * T \in Int /\ (w + 500) * T \in Int  BY <1>1, <1>3
    <3> QED  BY <3>2, <3>3, <3>4, <3>5, <3>6 DEF m
  <2>2. MinCash - Slack = 493  BY <1>13 DEF MinCash
  <2>3. cash' = (cash - x) - k  BY <1>3, <1>6, <1>8, <1>10
  <2>4. 10000 * ((cash - x) - k) >= 493 * (T - k)
    BY <1>1, <1>3, <1>6, <1>10, <1>11, <2>1, CashFits
  <2> QED  BY <1>7, <2>2, <2>3, <2>4
\* A part that the name joins, or is in already, is within a limit that had room.
<1>15. ASSUME NEW S, S \subseteq DOMAIN positions, NEW R, R \subseteq DOMAIN positions',
              R \ {n} = S \ {n}, n \in R, had => n \in S,
              NEW limit \in Int, limit <= 3000, w + Taken(S) <= limit
       PROVE  WorthOf(MarketValues', R) \in Int
              /\ 10000 * WorthOf(MarketValues', R) <= (limit + 7) * TotalValue'
  <2> DEFINE s == Worth(S)
             t == Taken(S)
  <2>1. s \in Int /\ s = WorthOf(MarketValues, S) /\ t \in Int  BY <1>3, <1>15
  <2>2. WorthOf(MarketValues', R) = WorthOf(MarketValues, S) + (x + was) - (IF n \in S THEN was ELSE 0)
    <3> QED  BY <1>7, <1>15
  <2>3. n \notin S => was = 0  BY <1>15 DEF was
  <2>4. 10000 * s <= t * T
    <3>1. t = -((-10000 * s) \div T)  BY <1>4 DEF Taken, T
    <3> HIDE DEF s, t
    <3> QED  BY <1>3, <1>4, <1>15, <2>1, <3>1, RoundedUp
  <2>5. t + w <= limit
    <3>1. w + t <= limit  BY <1>15
    <3> HIDE DEF s, t
    <3> QED  BY <1>1, <1>15, <2>1, <3>1
  <2> HIDE DEF s, t
  <2>6. WorthOf(MarketValues', R) = s + x  BY <1>6, <1>7, <2>1, <2>2, <2>3
  <2>7. 10000 * (s + x) <= (limit + 7) * (T - k)
    BY <1>1, <1>3, <1>4, <1>6, <1>10, <1>11, <1>15, <2>1, <2>4, <2>5, PartFits
  <2> QED  BY <1>6, <1>7, <2>1, <2>6, <2>7
\* A part that the name is not in afterwards is worth no more than before.
<1>16. ASSUME NEW S, S \subseteq DOMAIN positions, NEW R, R \subseteq DOMAIN positions',
              R \ {n} = S \ {n}, n \notin R
       PROVE  WorthOf(MarketValues', R) <= Worth(S)
  <2>1. Worth(S) \in Int /\ Worth(S) = WorthOf(MarketValues, S)  BY <1>3, <1>16
  <2>2. WorthOf(MarketValues', R) = WorthOf(MarketValues, S) + 0 - (IF n \in S THEN was ELSE 0)
    <3> QED  BY <1>7, <1>16
  <2> QED  BY <1>7, <2>1, <2>2
<1>17. ASSUME NEW s
       PROVE  \/ Worth(InSector(s))' <= Worth(InSector(s))
              \/ Taken(InSector(s))' <= MaxSector + Slack
              \/ Moved(n)
  <2> DEFINE S == InSector(s)
             R == {m \in DOMAIN positions' : positions'[m].sector = s}
  <2>1. R = InSector(s)'  BY DEF InSector
  <2>2. S \subseteq DOMAIN positions /\ R \subseteq DOMAIN positions'  BY DEF InSector
  <2>3. R \ {n} = S \ {n}
    <3> QED  BY <1>8 DEF InSector
  <2>4. n \in R <=> positions'[n].sector = s  BY <1>8
  <2>5. n \in S <=> had /\ positions[n].sector = s  BY <1>9 DEF InSector
  <2>6. Worth(InSector(s))' = WorthOf(MarketValues', R)
    <3>1. Worth(InSector(s))' = WorthOf(MarketValues', InSector(s)')
      BY DEF Worth, WorthOf, MapThenSumSet, MapThenFoldSet
    <3> QED  BY <2>1, <3>1
  <2>7. CASE n \notin R
    <3> HIDE DEF S, R
    <3>1. WorthOf(MarketValues', R) <= Worth(S)  BY <1>16, <2>2, <2>3, <2>7
    <3> QED  BY <2>6, <3>1 DEF S
  <2>8. CASE n \in R /\ (had => stored[n].sector = s)
    <3>1. s = stored[n].sector /\ (had => n \in S)  BY <1>8, <2>4, <2>5, <2>8
    <3>2. w + Taken(S) <= 3000  BY <1>1, <3>1 DEF MaxSector, sector, S
    <3>3. 3000 \in Int /\ 3000 <= 3000  OBVIOUS
    <3> HIDE DEF S, R
    <3>4. WorthOf(MarketValues', R) \in Int
          /\ 10000 * WorthOf(MarketValues', R) <= (3000 + 7) * TotalValue'
      BY <1>15, <2>2, <2>3, <2>8, <3>1, <3>2, <3>3
    <3>5. Worth(InSector(s))' \in Int /\ 10000 * Worth(InSector(s))' <= 3007 * TotalValue'
      BY <2>6, <3>4
    <3>6. Taken(InSector(s))' <= 3007
      <4>1. Taken(InSector(s))' = -((-10000 * Worth(InSector(s))') \div TotalValue')  BY <1>12 DEF Taken
      <4>2. 3007 \in Int  OBVIOUS
      <4> QED  BY <1>12, <3>5, <4>1, <4>2, RoundedUp
    <3> QED  BY <1>13, <3>6 DEF MaxSector
  <2>9. CASE n \in R /\ had /\ stored[n].sector # s
    <3>1. positions[n].sector = s  BY <1>8, <2>4, <2>9
    <3> QED  BY <2>9, <3>1 DEF Moved, had
  <2> QED  BY <2>7, <2>8, <2>9
<1>18. \/ Worth(Speculated)' <= Worth(Speculated)
       \/ Taken(Speculated)' <= MaxSpeculative + Slack
       \/ Relabelled(n)
  <2> DEFINE S == Speculated
             R == {m \in DOMAIN positions' : positions'[m].strategy \in Speculative}
  <2>1. R = Speculated'  BY DEF Speculated
  <2>2. S \subseteq DOMAIN positions /\ R \subseteq DOMAIN positions'  BY DEF Speculated
  <2>3. R \ {n} = S \ {n}
    <3> QED  BY <1>8 DEF Speculated
  <2>4. n \in R <=> strategy \in Speculative  BY <1>8
  <2>5. n \in S <=> had /\ positions[n].strategy \in Speculative  BY <1>9 DEF Speculated
  <2>6. Worth(Speculated)' = WorthOf(MarketValues', R)
    <3>1. Worth(Speculated)' = WorthOf(MarketValues', Speculated')
      BY DEF Worth, WorthOf, MapThenSumSet, MapThenFoldSet
    <3> QED  BY <2>1, <3>1
  <2>7. CASE n \notin R
    <3> HIDE DEF S, R
    <3>1. WorthOf(MarketValues', R) <= Worth(S)  BY <1>16, <2>2, <2>3, <2>7
    <3> QED  BY <2>6, <3>1 DEF S
  <2>8. CASE n \in R /\ (had => n \in S)
    <3>1. w + Taken(S) <= 1500  BY <1>1, <2>4, <2>8 DEF MaxSpeculative, spec, S
    <3>2. 1500 \in Int /\ 1500 <= 3000  OBVIOUS
    <3> HIDE DEF S, R
    <3>3. WorthOf(MarketValues', R) \in Int
          /\ 10000 * WorthOf(MarketValues', R) <= (1500 + 7) * TotalValue'
      BY <1>15, <2>2, <2>3, <2>8, <3>1, <3>2
    <3>4. Worth(Speculated)' \in Int /\ 10000 * Worth(Speculated)' <= 1507 * TotalValue'
      BY <2>6, <3>3
    <3>5. Taken(Speculated)' <= 1507
      <4>1. Taken(Speculated)' = -((-10000 * Worth(Speculated)') \div TotalValue')  BY <1>12 DEF Taken
      <4>2. 1507 \in Int  OBVIOUS
      <4> QED  BY <1>12, <3>4, <4>1, <4>2, RoundedUp
    <3> QED  BY <1>13, <3>5 DEF MaxSpeculative
  <2>9. CASE n \in R /\ had /\ n \notin S
    <3>1. positions[n].strategy \notin Speculative  BY <2>5, <2>9
    <3> QED  BY <2>9, <3>1 DEF Relabelled, had
  <2> QED  BY <2>7, <2>8, <2>9
<1> QED  BY <1>14, <1>17, <1>18 DEF WithinLimits, n

LEMMA DecideKeepsNumbers ==
    ASSUME PortfolioInv, NEW answer, Decide(answer), NEW m \in DOMAIN decisions'
    PROVE  Numbered(decisions'[m])
<1> DEFINE n == Head(run.work)
           d == Decision(n, Output(5, n, answer))
<1>1. decisions' = Put(decisions, n, d) /\ run.work # <<>>  BY DEF Decide
<1>2. n \in DOMAIN run.analyses
  <2>1. run.work \in Seq(DOMAIN run.analyses)  BY DEF PortfolioInv, RunInv
  <2> QED  BY <1>1, <2>1
<1>3. n \in DOMAIN stored /\ run.analyses[n] = Analysed[stored][n] /\ stored \in Universes
  BY <1>2 DEF PortfolioInv, RunInv
<1> HIDE DEF n
<1>4. Numbered(d)  BY <1>3, DecisionNumbered
<1> HIDE DEF d
<1>5. decisions'[m] = d \/ (m \in DOMAIN decisions /\ decisions'[m] = decisions[m])
  BY <1>1 DEF Put
<1> QED  BY <1>4, <1>5 DEF PortfolioInv

\* The size advised depends on what is stored, decided and held alone.
LEMMA SizingSame ==
    ASSUME UNCHANGED <<stored, decisions, cash, positions>>
    PROVE  /\ \A n, c : SizingInputs(n, c)' = SizingInputs(n, c)
           /\ TotalValue' = TotalValue
<1>1. MarketValues' = MarketValues  BY DEF MarketValues, LatestPrice
<1>2. TotalValue' = TotalValue
  BY <1>1 DEF TotalValue, Worth, MapThenSumSet, MapThenFoldSet
<1>3. CashShare' = CashShare  BY <1>2 DEF CashShare
<1>4. Taken(Speculated)' = Taken(Speculated)
  BY <1>1, <1>2 DEF Taken, Worth, Speculated, MapThenSumSet, MapThenFoldSet
<1>5. \A s : Taken(InSector(s))' = Taken(InSector(s))
  BY <1>1, <1>2 DEF Taken, Worth, InSector, MapThenSumSet, MapThenFoldSet
<1>6. \A n, c : SizingInputs(n, c)' = SizingInputs(n, c)
  BY <1>2, <1>3, <1>4, <1>5 DEF SizingInputs
<1> QED  BY <1>2, <1>6

LEMMA BuyForgets == ASSUME NEW n, NEW q, NEW strategy, Buy(n, q, strategy) PROVE advice' = NoAdvice
  BY DEF Buy, Fill

\* As many shares as there are.
LEMMA QuantityNat ==
    ASSUME PortfolioInv, advice.quantity > 0
    PROVE  advice.quantity \in Nat
<1> DEFINE e == decisions[advice.name].levels.entry
           w == advice.weight
<1>1. /\ w \in Nat /\ e \in Int /\ e > 0
      /\ advice.quantity = (w * TotalValue) \div (10000 * e)
  BY AdviceFits
<1>2. TotalValue \in Int  BY TotalsInt
<1> HIDE DEF e, w
<1>3. w * TotalValue \in Int /\ 10000 * e \in Int /\ 10000 * e > 0  BY <1>1, <1>2
<1>4. (w * TotalValue) \div (10000 * e) \in Int  BY <1>3
<1> QED  BY <1>1, <1>4

\* A sale leaves money and shares that are numbers too.
LEMMA ExitMoves == ASSUME PortfolioInv, NEW n, Exit(n) PROVE cash' \in Int /\ Book(positions')
<1> DEFINE x == LatestPrice(n) * positions[n].quantity
<1>1. /\ positions' = [m \in DOMAIN positions \ {n} |-> positions[m]]
      /\ n \in DOMAIN positions /\ cash' = cash + ProceedsOf(x)
  BY DEF Exit, Fill, Restrict, Held
<1>2. Book(positions) /\ cash \in Int /\ stored \in Universes  BY DEF PortfolioInv, RunInv
<1>3. IsFiniteSet(DOMAIN positions \ {n})  BY <1>2, FS_RemoveElement DEF Book
<1>4. Book(positions')  BY <1>1, <1>2, <1>3 DEF Book
<1>5. x \in Int  BY <1>1, <1>2, LatestPriceInt DEF Book
<1> HIDE DEF x
<1>6. ProceedsOf(x) \in Int
  <2> DEFINE gross == x - Slippage(x)
  <2>1. gross \in Int  BY <1>5 DEF Slippage, SlippageRate
  <2>2. ProceedsOf(x) = gross - Commission(gross)  BY DEF ProceedsOf
  <2> HIDE DEF gross
  <2> QED  BY <2>1, <2>2 DEF Commission, CommissionRate
<1> QED  BY <1>1, <1>2, <1>4, <1>6

LEMMA PortfolioInvStep == PortfolioInv /\ [Next]_vars => PortfolioInv'
<1> SUFFICES ASSUME PortfolioInv, [Next]_vars PROVE PortfolioInv'  OBVIOUS
<1>1. RunInv'  BY RunInvStep DEF PortfolioInv
<1>2. \A n \in DOMAIN decisions' : Numbered(decisions'[n])
  <2>1. CASE UNCHANGED decisions  BY <2>1 DEF PortfolioInv, Numbered
  <2>2. CASE decisions' = <<>>  BY <2>2
  <2>3. CASE \E answer : Decide(answer)  BY <2>3, DecideKeepsNumbers
  <2> QED  BY <2>1, <2>2, <2>3, WhoDecides
<1>3. ASSUME advice' = NoAdvice, cash' \in Int, Book(positions') PROVE PortfolioInv'
  BY <1>1, <1>2, <1>3 DEF PortfolioInv, Numbered, Book
<1>4. ASSUME advice' = NoAdvice, UNCHANGED <<cash, positions>> PROVE PortfolioInv'
  BY <1>3, <1>4 DEF PortfolioInv, Book
<1>5. CASE run.phase # "idle" /\ UNCHANGED <<advice, cash, positions>>
  BY <1>4, <1>5 DEF PortfolioInv
<1>6. ASSUME NEW n \in DOMAIN stored, NEW c \in Correlated, Advise(n, c) PROVE PortfolioInv'
  <2> DEFINE w == SizePosition(SizingInputs(n, c))
             e == decisions[n].levels.entry
  <2>1. /\ run.phase = "idle" /\ n \in DOMAIN decisions
        /\ advice' = [name |-> n, weight |-> w, quantity |-> Quantity(w, e)]
        /\ UNCHANGED <<stored, run, decisions, cash, positions>>
    BY <1>6 DEF Advise, Idle, book
  <2>2. advice'.name = n /\ advice'.weight = w /\ advice'.quantity = Quantity(w, e)  BY <2>1
  <2>3. SizingInputs(n, c)' = SizingInputs(n, c) /\ TotalValue' = TotalValue  BY <2>1, SizingSame
  <2>5. advice'.weight = SizePosition(SizingInputs(advice.name, c))'
    <3>1. SizingInputs(advice.name, c)' = SizingInputs(n, c)
      BY <2>1, <2>2, <2>3 DEF SizingInputs
    <3> QED  BY <2>2, <3>1
  <2>6. Quantity(advice.weight, decisions[advice.name].levels.entry)' = Quantity(w, e)
    BY <2>1, <2>2, <2>3 DEF Quantity
  <2>7. SizedNow'  BY <2>2, <2>5, <2>6 DEF SizedNow
  <2> QED  BY <1>1, <1>2, <2>1, <2>2, <2>7 DEF PortfolioInv, Numbered, Book
<1>7. CASE Follow
  <2>1. advice.quantity \in Nat
    <3>1. advice.quantity > 0 /\ advice # NoAdvice  BY <1>7 DEF Follow, NoAdvice
    <3> QED  BY <3>1, QuantityNat
  <2>2. Buy(advice.name, advice.quantity, decisions[advice.name].strategy)  BY <1>7 DEF Follow
  <2> QED  BY <1>3, <2>1, <2>2, BuyMoves, BuyForgets
<1>8. ASSUME NEW order \in OwnOrders, Order(order) PROVE PortfolioInv'
  <2> DEFINE strategy == IF Held(order.name) THEN positions[order.name].strategy ELSE "none"
  <2>1. Buy(order.name, order.quantity, strategy)  BY <1>8 DEF Order
  <2>2. order.quantity \in Nat  BY DeskAssumption
  <2> HIDE DEF strategy
  <2> QED  BY <1>3, <2>1, <2>2, BuyMoves, BuyForgets
<1>9. ASSUME NEW n, Exit(n) PROVE PortfolioInv'
  <2>1. advice' = NoAdvice  BY <1>9 DEF Exit, Fill
  <2>2. cash' \in Int /\ Book(positions')  BY <1>9, ExitMoves
  <2> QED  BY <1>3, <2>1, <2>2
<1>10. ASSUME NEW n, OpenPage(n) PROVE advice' = NoAdvice /\ UNCHANGED <<cash, positions>>
  BY <1>10 DEF OpenPage, book
<1>11. ASSUME NEW request, BeginRun(request) PROVE advice' = NoAdvice /\ UNCHANGED <<cash, positions>>
  BY <1>11 DEF BeginRun, book
<1>12. ASSUME NEW answer, Ask(answer) \/ Decide(answer)
       PROVE  run.phase # "idle" /\ UNCHANGED <<advice, cash, positions>>
  BY <1>12 DEF Ask, Decide, portfolio
<1>13. ASSUME Refresh PROVE advice' = NoAdvice /\ UNCHANGED <<cash, positions>>
  BY <1>13 DEF Refresh, book
<1>14. ASSUME Score \/ SkipName \/ Rank \/ FailName \/ EndRun
       PROVE  run.phase # "idle" /\ UNCHANGED <<advice, cash, positions>>
  <2>1. run.phase # "idle" /\ UNCHANGED portfolio
    BY <1>14 DEF Score, SkipName, Rank, FailName, EndRun
  <2> QED  BY <2>1 DEF portfolio
<1>15. CASE UNCHANGED vars
  <2>1. UNCHANGED <<stored, run, decisions, cash, positions, advice>>  BY <1>15 DEF vars
  <2>2. /\ \A n, c : SizingInputs(n, c)' = SizingInputs(n, c)
        /\ TotalValue' = TotalValue
    BY <2>1, SizingSame
  <2>3. \A weight, entry : Quantity(weight, entry)' = Quantity(weight, entry)
    BY <2>2 DEF Quantity
  <2>4. SizedNow => SizedNow'
    <3> SUFFICES ASSUME NEW c \in Correlated,
                        advice.weight = SizePosition(SizingInputs(advice.name, c)),
                        advice.quantity = Quantity(advice.weight, decisions[advice.name].levels.entry)
                 PROVE  SizedNow'
      BY DEF SizedNow
    <3>1. SizingInputs(advice.name, c)' = SizingInputs(advice.name, c)
      BY <2>1, <2>2 DEF SizingInputs
    <3>2. advice'.weight = SizePosition(SizingInputs(advice.name, c))'  BY <2>1, <3>1
    <3>3. advice'.quantity = Quantity(advice.weight, decisions[advice.name].levels.entry)'
      BY <2>1, <2>2 DEF Quantity
    <3> QED  BY <3>2, <3>3 DEF SizedNow
  <2> QED  BY <1>1, <1>2, <2>1, <2>4 DEF PortfolioInv, Numbered, Book
<1> QED
  BY <1>4, <1>5, <1>6, <1>7, <1>8, <1>9, <1>10, <1>11, <1>12, <1>13, <1>14, <1>15 DEF Next

\* size_position, execute_trade: for any data, answers and order of purchases and
\* sales, following the size advised at no more than the price it was made for
\* misses the cash buffer by at most what the order costs, seven hundredths of a
\* percent, and fills neither a sector nor speculation beyond its limit and that,
\* but for a name that was moved or relabelled after it was bought.
THEOREM LimitsKept == Spec => LimitsHold
<1>1. Init => PortfolioInv
  <2> SUFFICES ASSUME Init PROVE PortfolioInv  OBVIOUS
  <2>1. DOMAIN positions = {} /\ DOMAIN decisions = {}  BY DEF Init
  <2>2. Book(positions)  BY <2>1, FS_EmptySet DEF Book
  <2>3. cash \in Int  BY DeskAssumption DEF Init
  <2> QED  BY <2>1, <2>2, <2>3, IdleRun, NoRunFacts DEF Init, PortfolioInv
<1>2. PortfolioInv /\ [Next]_vars => [Follow => WithinLimits]_vars
  BY FollowWithin
<1> QED  BY <1>1, <1>2, PortfolioInvStep, PTL DEF Spec, LimitsHold


------------------------------------------------------------------------------
(* The page.  It is made of one analysis, and given up when what is stored  *)
(* changes.                                                                 *)

PageInv == stored \in Universes /\ PageGrounded

\* The page just opened.
LEMMA OpenPageGrounded ==
    ASSUME stored \in Universes, NEW n \in DOMAIN stored, OpenPage(n)
    PROVE  PageGrounded'
<1> DEFINE d == stored[n]
           a == Analysed[stored][n]
           v == IF a.fundamental.insufficient THEN Unvalued
                ELSE ValuationFor(a.fundamental.metrics, d.statements[1], d.shares, LastClose(d),
                                  a.peers, d.history)
           r == DeriveRating(a.alpha)
<1>1. page' = [name |-> n, rating |-> r, alpha |-> a.alpha, valuation |-> v]
  BY DEF OpenPage
<1>2. FiguresOf(d, a) /\ Stored(d)  BY FiguresAreNumbers, UniverseStored
<1> HIDE DEF d, a
<1>3. Grounded(v)
  <2>1. CASE a.fundamental.insufficient
    <3>1. ~ Known(v.fair)  BY <2>1 DEF Unvalued, Known
    <3> QED  BY <3>1 DEF Grounded
  <2>2. CASE ~ a.fundamental.insufficient  BY <1>2, <2>2, ValuationGrounded
  <2> QED  BY <2>1, <2>2
<1>4. r.confidence = "LOW" \/ ConfidenceRank[r.confidence] <= ConfidenceRank[a.alpha.confidence]
  BY <1>2, RatingGrounded DEF FiguresOf
<1> HIDE DEF r, v
<1>5. page'.rating = r /\ page'.alpha = a.alpha /\ page'.valuation = v  BY <1>1
<1> QED  BY <1>3, <1>4, <1>5 DEF PageGrounded, Grounded

LEMMA PageInvStep == PageInv /\ [Next]_vars => PageInv'
<1> SUFFICES ASSUME PageInv, [Next]_vars PROVE PageInv'  OBVIOUS
<1>1. ASSUME NEW n \in DOMAIN stored, OpenPage(n) PROVE PageInv'
  <2>1. PageGrounded'  BY <1>1, OpenPageGrounded DEF PageInv
  <2>2. stored' = stored  BY <1>1 DEF OpenPage
  <2> QED  BY <2>1, <2>2 DEF PageInv
<1>2. CASE stored' \in Universes /\ (page' = page \/ page' = NoPage)
  BY <1>2 DEF PageInv, PageGrounded
<1>3. ASSUME NEW answer, Ask(answer) \/ Decide(answer) PROVE stored' = stored /\ page' = page
  BY <1>3 DEF Ask, Decide
<1>4. ASSUME \/ Follow
             \/ \E order \in OwnOrders : Order(order)
             \/ \E n : Exit(n)
      PROVE  stored' = stored /\ page' = NoPage
  BY <1>4 DEF Follow, Order, Exit, Buy, Fill
<1>5. \/ \E n \in DOMAIN stored : OpenPage(n)
      \/ stored' \in Universes /\ (page' = page \/ page' = NoPage)
  BY <1>3, <1>4 DEF PageInv, Next, vars, Refresh, BeginRun, Score, SkipName, Rank, FailName, EndRun,
                    Advise
<1> QED  BY <1>1, <1>2, <1>5

\* derive_rating, blended_valuation: for any names and data, a page claims no more
\* confidence than its score has, and a fair value only among methods that agree.
THEOREM PageKept == Spec => []PageGrounded
<1>1. Init => PageInv  BY DEF Init, PageInv, PageGrounded
<1>2. PageInv => PageGrounded  BY DEF PageInv
<1> QED  BY <1>1, <1>2, PageInvStep, PTL DEF Spec
==============================================================================
