------------------------------- MODULE Folding -------------------------------
(***************************************************************************)
(* What a fold over a sequence and a sum over a finite set give, step by   *)
(* step: for the replay of a ledger, the totals over positions and trades, *)
(* the orders of a rebalancing and the rounds of a redistribution.  The    *)
(* community modules define all of them by recursion over the subsets of a *)
(* set.  Op and Term are instantiated with what is folded and summed, c is *)
(* what they take besides.                                                 *)
(***************************************************************************)
EXTENDS Integers, SequencesExt, FiniteSetTheorems, WellFoundedInduction, TLAPS

CONSTANTS
    Op(_, _, _),        \* Op(c, b, e): the state after b, when e comes
    Term(_, _)          \* Term(c, x): what x adds to a sum

Folded(c, start, s) == FoldLeft(LAMBDA b, e : Op(c, b, e), start, s)
Summed(c, S) == MapThenSumSet(LAMBDA x : Term(c, x), S)
Totalled(c, s) == FoldSeq(LAMBDA x, sum : Term(c, x) + sum, 0, s)

------------------------------------------------------------------------------
(* Induction.                                                              *)

\* A nonempty set of naturals has a least element.
LEMMA LeastNatural ==
    ASSUME NEW M, M \subseteq Nat, M # {}
    PROVE  \E x \in M : \A y \in M : x <= y
<1> DEFINE R == OpToRel(<, Nat)
<1>1. IsWellFoundedOn(R, Nat)  BY NatLessThanWellFounded
<1>2. \A x, y \in Nat : y < x => <<y, x>> \in R  BY DEF R, OpToRel
<1> HIDE DEF R
<1>3. PICK x \in M : \A y \in M : ~ (<<y, x>> \in R)  BY <1>1, WFMin
<1>4. \A y \in M : ~ (y < x)  BY <1>2, <1>3
<1> QED  BY <1>3, <1>4

\* What holds at zero and of a number when of the one before holds of all: the
\* predicate is given as the set of the numbers it holds of.
LEMMA NaturalsAll ==
    ASSUME NEW P, 0 \in P, \A n \in Nat : n \in P => n + 1 \in P
    PROVE  Nat \subseteq P
<1> SUFFICES ASSUME NEW m \in Nat, m \notin P PROVE FALSE  OBVIOUS
<1>1. PICK x \in Nat \ P : \A y \in Nat \ P : x <= y  BY LeastNatural
<1>2. x # 0 /\ x - 1 \in Nat /\ x - 1 \in P  BY <1>1
<1>3. (x - 1) + 1 = x  BY <1>1
<1> QED  BY <1>1, <1>2, <1>3

\* Among some subsets of a finite set one has no proper part among them.
LEMMA LeastSubset ==
    ASSUME NEW S, IsFiniteSet(S), NEW B, B \subseteq SUBSET S, B # {}
    PROVE  \E T \in B : \A x \in T : T \ {x} \notin B
<1> DEFINE M == {Cardinality(T) : T \in B}
<1>1. \A T \in B : IsFiniteSet(T) /\ Cardinality(T) \in Nat
  BY FS_Subset, FS_CardinalityType
<1>2. PICK m \in M : \A y \in M : m <= y
  <2>1. M \subseteq Nat /\ M # {}  BY <1>1
  <2> HIDE DEF M
  <2> QED  BY <2>1, LeastNatural
<1>3. PICK T \in B : Cardinality(T) = m  BY <1>2
<1>4. ASSUME NEW x \in T, T \ {x} \in B PROVE FALSE
  <2>1. Cardinality(T \ {x}) = Cardinality(T) - 1  BY <1>1, <1>3, FS_RemoveElement
  <2> QED  BY <1>1, <1>2, <1>3, <1>4, <2>1
<1> QED  BY <1>3, <1>4

------------------------------------------------------------------------------
(* Recursion over the subsets of a finite set.                             *)

\* A sum, or a fold of Op.
Sum == [kind |-> "sum", start |-> 0, context |-> 0]
Fold(c, start) == [kind |-> "fold", start |-> start, context |-> c]

\* g is what the definition of a fold over S says, with the element c[T] taken
\* first out of T and d giving the values of the elements.
Base(kind) == kind.start
Step(kind, x, v) == IF kind.kind = "sum" THEN x + v ELSE Op(kind.context, v, x)
Body(kind, c, d, g, T) == IF T = {} THEN Base(kind) ELSE Step(kind, d[c[T]], g[T \ {c[T]}])
Unfolds(kind, S, c, d, g) == g = [T \in SUBSET S |-> Body(kind, c, d, g, T)]

Picks(S, c) == \A T \in SUBSET S : T # {} => c[T] \in T

\* The recursion is well founded: there is such a g.
LEMMA UnfoldingExists ==
    ASSUME NEW kind, NEW S, IsFiniteSet(S), NEW c, Picks(S, c), NEW d
    PROVE  \E g : Unfolds(kind, S, c, d, g)
<1> DEFINE Upto(n, g) == \A T \in SUBSET S : Cardinality(T) <= n => g[T] = Body(kind, c, d, g, T)
           P == {n \in Nat : \E g : Upto(n, g)}
           Next(g) == [T \in SUBSET S |-> Body(kind, c, d, g, T)]
<1>1. \A T \in SUBSET S : IsFiniteSet(T) /\ Cardinality(T) \in Nat
  BY FS_Subset, FS_CardinalityType
<1>2. \A T \in SUBSET S : T # {} => T \ {c[T]} \in SUBSET S
                                    /\ Cardinality(T \ {c[T]}) = Cardinality(T) - 1
  BY <1>1, FS_RemoveElement DEF Picks
<1>3. 0 \in P
  <2> DEFINE g == [T \in SUBSET S |-> Base(kind)]
  <2>1. \A T \in SUBSET S : Cardinality(T) <= 0 => T = {}  BY <1>1, FS_EmptySet
  <2>2. Upto(0, g)  BY <2>1 DEF Body
  <2> QED  BY <2>2
<1>4. ASSUME NEW n \in Nat, n \in P PROVE n + 1 \in P
  <2>1. PICK g : Upto(n, g)  BY <1>4
  <2>2. ASSUME NEW T \in SUBSET S, Cardinality(T) <= n PROVE Next(g)[T] = g[T]
    BY <2>1, <2>2
  <2>3. ASSUME NEW T \in SUBSET S, Cardinality(T) <= n + 1
        PROVE  Next(g)[T] = Body(kind, c, d, Next(g), T)
    <3>1. CASE T = {}  BY <3>1 DEF Body
    <3>2. CASE T # {}
      <4>1. Cardinality(T \ {c[T]}) <= n  BY <1>1, <1>2, <2>3, <3>2
      <4>2. Next(g)[T \ {c[T]}] = g[T \ {c[T]}]  BY <1>2, <2>2, <3>2, <4>1
      <4> QED  BY <4>2 DEF Body
    <3> QED  BY <3>1, <3>2
  <2>4. Upto(n + 1, Next(g))  BY <2>3
  <2> HIDE DEF Upto, Next
  <2>5. \E h : Upto(n + 1, h)  BY <2>4
  <2>6. n + 1 \in Nat  OBVIOUS
  <2> QED  BY <2>5, <2>6
<1>5. Nat \subseteq P
  <2> HIDE DEF P
  <2> QED  BY <1>3, <1>4, NaturalsAll
<1>6. PICK g : Upto(Cardinality(S), g)  BY <1>1, <1>5
<1>7. \A T \in SUBSET S : Cardinality(T) <= Cardinality(S)  BY FS_Subset
<1>8. \A T \in SUBSET S : g[T] = Body(kind, c, d, g, T)  BY <1>6, <1>7
<1> DEFINE h == [T \in SUBSET S |-> g[T]]
<1>9. \A T \in SUBSET S : T # {} => h[T \ {c[T]}] = g[T \ {c[T]}]  BY <1>2
<1>10. \A T \in SUBSET S : Body(kind, c, d, g, T) = Body(kind, c, d, h, T)  BY <1>9 DEF Body
<1>11. h = [T \in SUBSET S |-> Body(kind, c, d, h, T)]  BY <1>8, <1>10
<1> QED  BY <1>11 DEF Unfolds

\* And it depends only on the values and the choices in the set.
LEMMA UnfoldingUnique ==
    ASSUME NEW kind, NEW S, NEW c, NEW d, NEW g, Unfolds(kind, S, c, d, g),
           NEW R, NEW b, NEW e, NEW h, Unfolds(kind, R, b, e, h),
           NEW W, IsFiniteSet(W), W \subseteq S, W \subseteq R, Picks(W, c),
           \A T \in SUBSET W : c[T] = b[T],
           \A x \in W : d[x] = e[x]
    PROVE  g[W] = h[W]
<1> SUFFICES ASSUME g[W] # h[W] PROVE FALSE  OBVIOUS
<1> DEFINE B == {T \in SUBSET W : g[T] # h[T]}
<1>1. PICK T \in B : \A x \in T : T \ {x} \notin B  BY LeastSubset
<1>2. T \in SUBSET S /\ T \in SUBSET R /\ T \in SUBSET W  BY <1>1
<1>3. g[T] = Body(kind, c, d, g, T) /\ h[T] = Body(kind, b, e, h, T)  BY <1>2 DEF Unfolds
<1>4. T # {}  BY <1>1, <1>3 DEF Body
<1>5. c[T] \in T /\ b[T] = c[T] /\ d[c[T]] = e[c[T]]  BY <1>2, <1>4 DEF Picks
<1>6. g[T \ {c[T]}] = h[T \ {c[T]}]  BY <1>1, <1>2, <1>5
<1>7. g[T] = h[T]  BY <1>3, <1>4, <1>5, <1>6 DEF Body
<1> QED  BY <1>1, <1>7

\* Terms that agree unfold to the same value.
LEMMA UnfoldingSame ==
    ASSUME NEW kind, NEW S, IsFiniteSet(S), NEW c, Picks(S, c),
           NEW d, NEW e, \A x \in S : d[x] = e[x],
           NEW g, Unfolds(kind, S, c, d, g), NEW h, Unfolds(kind, S, c, e, h)
    PROVE  g[S] = h[S]
<1>1. S \subseteq S /\ \A T \in SUBSET S : c[T] = c[T]  OBVIOUS
<1> QED  BY <1>1, UnfoldingUnique

------------------------------------------------------------------------------
(* Sums.                                                                   *)

AnyOf(S) == [T \in SUBSET S |-> CHOOSE x \in T : TRUE]

\* CHOOSE picks an element of each set that has one.
LEMMA AnyOfPicks == ASSUME NEW S PROVE Picks(S, AnyOf(S))
  BY DEF Picks, AnyOf

\* The library's sum is the unfolding that picks by CHOOSE.
LEMMA SumUnfolds ==
    ASSUME NEW S, IsFiniteSet(S), NEW f
    PROVE  \E g : Unfolds(Sum, S, AnyOf(S), f, g) /\ SumFunctionOnSet(f, S) = g[S]
<1> DEFINE Is(g) == g = [T \in SUBSET S |->
                            IF T = {} THEN 0
                            ELSE f[CHOOSE x \in T : TRUE] + g[T \ {CHOOSE x \in T : TRUE}]]
<1>1. \A g : Unfolds(Sum, S, AnyOf(S), f, g) <=> Is(g)
  <2> TAKE g
  <2>1. \A T \in SUBSET S :
            Body(Sum, AnyOf(S), f, g, T)
              = IF T = {} THEN 0
                ELSE f[CHOOSE x \in T : TRUE] + g[T \ {CHOOSE x \in T : TRUE}]
    BY DEF Body, Base, Step, AnyOf, Sum
  <2> QED  BY <2>1 DEF Unfolds
<1>2. \E g : Is(g)
  <2>1. Picks(S, AnyOf(S))  BY AnyOfPicks
  <2>2. \E g : Unfolds(Sum, S, AnyOf(S), f, g)  BY <2>1, UnfoldingExists
  <2> HIDE DEF Is
  <2> QED  BY <1>1, <2>2
<1> DEFINE iter == CHOOSE g : Is(g)
<1>3. Is(iter)
  <2> HIDE DEF Is
  <2> QED  BY <1>2
<1>4. SumFunctionOnSet(f, S) = iter[S]
  BY DEF SumFunctionOnSet, FoldFunctionOnSet, MapThenFoldSet
<1> QED  BY <1>1, <1>3, <1>4

\* The sum of the terms is the sum of the function that gives them.
THEOREM SummedIs ==
    ASSUME NEW S, IsFiniteSet(S), NEW f, NEW c, \A x \in S : f[x] = Term(c, x)
    PROVE  Summed(c, S) = SumFunctionOnSet(f, S)
<1> DEFINE Is(g) == g = [T \in SUBSET S |->
                            IF T = {} THEN 0
                            ELSE Term(c, CHOOSE x \in T : TRUE) + g[T \ {CHOOSE x \in T : TRUE}]]
<1>1. \A g : Unfolds(Sum, S, AnyOf(S), f, g) <=> Is(g)
  <2> TAKE g
  <2>1. \A T \in SUBSET S :
            Body(Sum, AnyOf(S), f, g, T)
              = IF T = {} THEN 0
                ELSE Term(c, CHOOSE x \in T : TRUE) + g[T \ {CHOOSE x \in T : TRUE}]
    BY DEF Body, Base, Step, AnyOf, Sum
  <2> QED  BY <2>1 DEF Unfolds
<1>2. \E g : Is(g)
  <2>1. Picks(S, AnyOf(S))  BY AnyOfPicks
  <2>2. \E g : Unfolds(Sum, S, AnyOf(S), f, g)  BY <2>1, UnfoldingExists
  <2> HIDE DEF Is
  <2> QED  BY <1>1, <2>2
<1> DEFINE iter == CHOOSE g : Is(g)
<1>3. Is(iter)
  <2> HIDE DEF Is
  <2> QED  BY <1>2
<1>4. Summed(c, S) = iter[S]  BY DEF Summed, MapThenSumSet, MapThenFoldSet
<1>5. PICK g : Unfolds(Sum, S, AnyOf(S), f, g) /\ SumFunctionOnSet(f, S) = g[S]  BY SumUnfolds
<1>6. iter[S] = g[S]
  <2>1. Unfolds(Sum, S, AnyOf(S), f, iter)  BY <1>1, <1>3
  <2> HIDE DEF iter
  <2> QED  BY <1>5, <2>1, AnyOfPicks, UnfoldingSame
<1> QED  BY <1>4, <1>5, <1>6

\* And so is the total of a sequence.
THEOREM TotalledIs ==
    ASSUME NEW s, IsFiniteSet(DOMAIN s), NEW f, NEW c, \A i \in DOMAIN s : f[i] = Term(c, s[i])
    PROVE  Totalled(c, s) = SumFunctionOnSet(f, DOMAIN s)
<1> DEFINE S == DOMAIN s
           Is(g) == g = [T \in SUBSET S |->
                            IF T = {} THEN 0
                            ELSE Term(c, s[CHOOSE x \in T : TRUE]) + g[T \ {CHOOSE x \in T : TRUE}]]
<1>1. \A g : Unfolds(Sum, S, AnyOf(S), f, g) <=> Is(g)
  <2> TAKE g
  <2>1. \A T \in SUBSET S :
            Body(Sum, AnyOf(S), f, g, T)
              = IF T = {} THEN 0
                ELSE Term(c, s[CHOOSE x \in T : TRUE]) + g[T \ {CHOOSE x \in T : TRUE}]
    BY DEF Body, Base, Step, AnyOf, Sum
  <2> QED  BY <2>1 DEF Unfolds
<1>2. \E g : Is(g)
  <2>1. Picks(S, AnyOf(S))  BY AnyOfPicks
  <2>2. \E g : Unfolds(Sum, S, AnyOf(S), f, g)  BY <2>1, UnfoldingExists
  <2> HIDE DEF Is
  <2> QED  BY <1>1, <2>2
<1> DEFINE iter == CHOOSE g : Is(g)
<1>3. Is(iter)
  <2> HIDE DEF Is
  <2> QED  BY <1>2
<1>4. Totalled(c, s) = iter[S]
  BY DEF Totalled, FoldSeq, FoldFunction, FoldFunctionOnSet, MapThenFoldSet
<1>5. PICK g : Unfolds(Sum, S, AnyOf(S), f, g) /\ SumFunctionOnSet(f, S) = g[S]  BY SumUnfolds
<1>6. iter[S] = g[S]
  <2>1. Unfolds(Sum, S, AnyOf(S), f, iter)  BY <1>1, <1>3
  <2> HIDE DEF iter, S
  <2> QED  BY <1>5, <2>1, AnyOfPicks, UnfoldingSame DEF S
<1> QED  BY <1>4, <1>5, <1>6

\* A sum depends only on the values in the set.
THEOREM SumEqual ==
    ASSUME NEW S, IsFiniteSet(S), NEW f, NEW h, \A x \in S : f[x] = h[x]
    PROVE  SumFunctionOnSet(f, S) = SumFunctionOnSet(h, S)
<1>1. PICK g : Unfolds(Sum, S, AnyOf(S), f, g) /\ SumFunctionOnSet(f, S) = g[S]  BY SumUnfolds
<1>2. PICK k : Unfolds(Sum, S, AnyOf(S), h, k) /\ SumFunctionOnSet(h, S) = k[S]  BY SumUnfolds
<1> QED  BY <1>1, <1>2, AnyOfPicks, UnfoldingSame

\* The sum over no element is zero.
THEOREM SumEmpty == ASSUME NEW f PROVE SumFunctionOnSet(f, {}) = 0
<1>1. IsFiniteSet({})  BY FS_EmptySet
<1>2. PICK g : Unfolds(Sum, {}, AnyOf({}), f, g) /\ SumFunctionOnSet(f, {}) = g[{}]
  BY <1>1, SumUnfolds
<1> QED  BY <1>2 DEF Unfolds, Body, Base, Sum

\* The sum over a set takes out one of its elements.
LEMMA SumTakesOut ==
    ASSUME NEW S, IsFiniteSet(S), S # {}, NEW f
    PROVE  LET x == CHOOSE x \in S : TRUE
           IN  x \in S /\ SumFunctionOnSet(f, S) = f[x] + SumFunctionOnSet(f, S \ {x})
<1> DEFINE x == CHOOSE x \in S : TRUE
           R == S \ {x}
<1>1. x \in S  OBVIOUS
<1>2. IsFiniteSet(R)  BY FS_RemoveElement
<1>3. PICK g : Unfolds(Sum, S, AnyOf(S), f, g) /\ SumFunctionOnSet(f, S) = g[S]  BY SumUnfolds
<1>4. PICK h : Unfolds(Sum, R, AnyOf(R), f, h) /\ SumFunctionOnSet(f, R) = h[R]
  BY <1>2, SumUnfolds
<1>5. g[S] = f[x] + g[R]  BY <1>3 DEF Unfolds, Body, Base, Step, AnyOf, Sum
<1>6. \A T \in SUBSET R : AnyOf(S)[T] = AnyOf(R)[T]  BY DEF AnyOf
<1>7. Picks(R, AnyOf(S))  BY <1>6, AnyOfPicks DEF Picks
<1>8. R \subseteq S  OBVIOUS
<1> HIDE DEF x, R
<1>9. g[R] = h[R]
  <2> DEFINE c == AnyOf(S)
             b == AnyOf(R)
  <2>1. Unfolds(Sum, S, c, f, g) /\ Unfolds(Sum, R, b, f, h)  BY <1>3, <1>4
  <2>2. R \subseteq R /\ Picks(R, c) /\ \A T \in SUBSET R : c[T] = b[T]  BY <1>6, <1>7
  <2>3. \A y \in R : f[y] = f[y]  OBVIOUS
  <2> HIDE DEF c, b
  <2> QED  BY <1>2, <1>8, <2>1, <2>2, <2>3, UnfoldingUnique
<1>10. SumFunctionOnSet(f, S) = f[x] + SumFunctionOnSet(f, R)  BY <1>3, <1>4, <1>5, <1>9
<1> QED  BY <1>1, <1>10 DEF x, R

\* The sum of integers is an integer.
THEOREM SumInt ==
    ASSUME NEW S, IsFiniteSet(S), NEW f, \A x \in S : f[x] \in Int
    PROVE  SumFunctionOnSet(f, S) \in Int
<1> SUFFICES ASSUME SumFunctionOnSet(f, S) \notin Int PROVE FALSE  OBVIOUS
<1> DEFINE B == {T \in SUBSET S : SumFunctionOnSet(f, T) \notin Int}
<1>1. PICK T \in B : \A x \in T : T \ {x} \notin B
  <2>1. B \subseteq SUBSET S /\ S \in B  OBVIOUS
  <2> HIDE DEF B
  <2> QED  BY <2>1, LeastSubset
<1>2. T # {}  BY <1>1, SumEmpty
<1>3. IsFiniteSet(T)  BY <1>1, FS_Subset
<1>4. PICK x \in T : SumFunctionOnSet(f, T) = f[x] + SumFunctionOnSet(f, T \ {x})
  BY <1>2, <1>3, SumTakesOut
<1>5. f[x] \in Int /\ SumFunctionOnSet(f, T \ {x}) \in Int  BY <1>1
<1>6. SumFunctionOnSet(f, T) \in Int  BY <1>4, <1>5
<1> QED  BY <1>1, <1>6

\* Whichever element is taken out.
THEOREM SumSplits ==
    ASSUME NEW S, IsFiniteSet(S), NEW f, \A x \in S : f[x] \in Int, NEW a \in S
    PROVE  SumFunctionOnSet(f, S) = f[a] + SumFunctionOnSet(f, S \ {a})
<1> DEFINE Total(T) == SumFunctionOnSet(f, T)
           Good(T) == \A x \in T : Total(T) = f[x] + Total(T \ {x})
           B == {T \in SUBSET S : ~ Good(T)}
<1> SUFFICES ASSUME ~ Good(S) PROVE FALSE  OBVIOUS
<1>1. PICK T \in B : \A x \in T : T \ {x} \notin B
  <2>1. B \subseteq SUBSET S /\ S \in B  OBVIOUS
  <2> HIDE DEF B
  <2> QED  BY <2>1, LeastSubset
<1>2. T \in SUBSET S /\ ~ Good(T)  BY <1>1
<1>3. \A x \in T : Good(T \ {x})  BY <1>1
<1>4. \A U \in SUBSET T : IsFiniteSet(U) /\ Total(U) \in Int
  <2> TAKE U \in SUBSET T
  <2>1. IsFiniteSet(U)  BY <1>2, FS_Subset
  <2>2. \A x \in U : f[x] \in Int  BY <1>2
  <2> QED  BY <2>1, <2>2, SumInt
<1>5. T # {}  BY <1>2
<1>6. PICK y \in T : Total(T) = f[y] + Total(T \ {y})  BY <1>4, <1>5, SumTakesOut
<1>7. ASSUME NEW x \in T PROVE Total(T) = f[x] + Total(T \ {x})
  <2>1. CASE x = y  BY <1>6, <2>1
  <2>2. CASE x # y
    <3>1. Total(T \ {y}) = f[x] + Total((T \ {y}) \ {x})  BY <1>3, <2>2
    <3>2. Total(T \ {x}) = f[y] + Total((T \ {x}) \ {y})  BY <1>3, <2>2
    <3>3. (T \ {y}) \ {x} = (T \ {x}) \ {y}  OBVIOUS
    <3>4. Total((T \ {x}) \ {y}) \in Int /\ f[x] \in Int /\ f[y] \in Int  BY <1>2, <1>4
    <3>5. PICK rest \in Int : rest = Total((T \ {x}) \ {y})  BY <3>4
    <3>6. Total(T \ {y}) = f[x] + rest /\ Total(T \ {x}) = f[y] + rest
      BY <3>1, <3>2, <3>3, <3>5
    <3>7. f[y] + (f[x] + rest) = f[x] + (f[y] + rest)  BY <3>4
    <3> QED  BY <1>6, <3>6, <3>7
  <2> QED  BY <2>1, <2>2
<1> QED  BY <1>2, <1>7

\* A new element adds its term.
THEOREM SumAdds ==
    ASSUME NEW S, IsFiniteSet(S), NEW f, NEW a, a \notin S, \A x \in S \cup {a} : f[x] \in Int
    PROVE  SumFunctionOnSet(f, S \cup {a}) = f[a] + SumFunctionOnSet(f, S)
<1>1. IsFiniteSet(S \cup {a})  BY FS_AddElement
<1>2. (S \cup {a}) \ {a} = S  OBVIOUS
<1> QED  BY <1>1, <1>2, SumSplits

\* The sum follows a change of one term, which may come or go.
THEOREM SumMoves ==
    ASSUME NEW S, IsFiniteSet(S), NEW R, NEW a, R \ {a} = S \ {a},
           NEW f, \A x \in S : f[x] \in Int, NEW h, \A x \in R : h[x] \in Int,
           \A x \in S \ {a} : h[x] = f[x]
    PROVE  /\ IsFiniteSet(R)
           /\ SumFunctionOnSet(h, R) = SumFunctionOnSet(f, S)
                                         + (IF a \in R THEN h[a] ELSE 0)
                                         - (IF a \in S THEN f[a] ELSE 0)
<1> DEFINE T == S \ {a}
           before == IF a \in S THEN f[a] ELSE 0
           after == IF a \in R THEN h[a] ELSE 0
<1>1. IsFiniteSet(T)  BY FS_RemoveElement
<1>2. IsFiniteSet(T \cup {a})  BY <1>1, FS_AddElement
<1>3. R = T \/ R = T \cup {a}  OBVIOUS
<1>4. IsFiniteSet(R)  BY <1>1, <1>2, <1>3
<1>5. SumFunctionOnSet(f, T) = SumFunctionOnSet(h, T) /\ SumFunctionOnSet(f, T) \in Int
  BY <1>1, SumEqual, SumInt
<1>6. SumFunctionOnSet(f, S) = SumFunctionOnSet(f, T) + before
  <2>1. CASE a \in S
    <3>1. SumFunctionOnSet(f, S) = f[a] + SumFunctionOnSet(f, T)  BY <2>1, SumSplits
    <3> QED  BY <1>5, <2>1, <3>1
  <2>2. CASE a \notin S
    <3>1. T = S /\ before = 0  BY <2>2
    <3> HIDE DEF T, before
    <3> QED  BY <1>5, <3>1
  <2> QED  BY <2>1, <2>2
<1>7. SumFunctionOnSet(h, R) = SumFunctionOnSet(h, T) + after
  <2>1. CASE a \in R
    <3>1. SumFunctionOnSet(h, R) = h[a] + SumFunctionOnSet(h, R \ {a})  BY <1>4, <2>1, SumSplits
    <3>2. R \ {a} = T /\ after = h[a] /\ h[a] \in Int  BY <2>1
    <3>3. SumFunctionOnSet(h, R) = h[a] + SumFunctionOnSet(h, T)  BY <3>1
    <3> HIDE DEF T, after
    <3> QED  BY <1>5, <3>2, <3>3
  <2>2. CASE a \notin R
    <3>1. R = T  BY <2>2
    <3> QED  BY <1>5, <2>2, <3>1
  <2> QED  BY <2>1, <2>2
<1>8. before \in Int /\ after \in Int  OBVIOUS
<1> HIDE DEF before, after, T
<1>9. SumFunctionOnSet(h, R) = SumFunctionOnSet(f, S) + after - before
  BY <1>5, <1>6, <1>7, <1>8
<1> QED  BY <1>4, <1>9 DEF before, after

\* The sum of the differences is the difference of the sums.
THEOREM SumDiffers ==
    ASSUME NEW S, IsFiniteSet(S), NEW f, NEW g, NEW h,
           \A x \in S : f[x] \in Int /\ g[x] \in Int /\ h[x] = f[x] - g[x]
    PROVE  SumFunctionOnSet(h, S) = SumFunctionOnSet(f, S) - SumFunctionOnSet(g, S)
<1> DEFINE Good(T) == SumFunctionOnSet(h, T) = SumFunctionOnSet(f, T) - SumFunctionOnSet(g, T)
           B == {T \in SUBSET S : ~ Good(T)}
<1> SUFFICES ASSUME ~ Good(S) PROVE FALSE  OBVIOUS
<1>1. PICK T \in B : \A x \in T : T \ {x} \notin B
  <2>1. B \subseteq SUBSET S /\ S \in B  OBVIOUS
  <2> HIDE DEF B
  <2> QED  BY <2>1, LeastSubset
<1>2. T \in SUBSET S /\ ~ Good(T) /\ IsFiniteSet(T)  BY <1>1, FS_Subset
<1>3. T # {}
  <2>1. Good({})  BY SumEmpty
  <2> HIDE DEF Good
  <2> QED  BY <1>2, <2>1
<1>4. PICK x : x \in T  BY <1>3
<1>5. Good(T \ {x})  BY <1>1, <1>4
<1>6. \A y \in T : f[y] \in Int /\ g[y] \in Int /\ h[y] \in Int  BY <1>2
<1>7. /\ SumFunctionOnSet(f, T) = f[x] + SumFunctionOnSet(f, T \ {x})
      /\ SumFunctionOnSet(g, T) = g[x] + SumFunctionOnSet(g, T \ {x})
      /\ SumFunctionOnSet(h, T) = h[x] + SumFunctionOnSet(h, T \ {x})
  BY <1>2, <1>4, <1>6, SumSplits
<1>8. /\ SumFunctionOnSet(f, T \ {x}) \in Int
      /\ SumFunctionOnSet(g, T \ {x}) \in Int
  <2>1. IsFiniteSet(T \ {x})  BY <1>2, FS_RemoveElement
  <2> QED  BY <1>6, <2>1, SumInt
<1>9. h[x] = f[x] - g[x] /\ f[x] \in Int /\ g[x] \in Int  BY <1>2, <1>4
<1>10. Good(T)  BY <1>5, <1>7, <1>8, <1>9
<1> QED  BY <1>2, <1>10

\* A sum of larger terms is no smaller.
THEOREM SumMonotone ==
    ASSUME NEW S, IsFiniteSet(S), NEW f, NEW g,
           \A x \in S : f[x] \in Int /\ g[x] \in Int /\ f[x] <= g[x]
    PROVE  SumFunctionOnSet(f, S) <= SumFunctionOnSet(g, S)
<1> DEFINE Good(T) == SumFunctionOnSet(f, T) <= SumFunctionOnSet(g, T)
           B == {T \in SUBSET S : ~ Good(T)}
<1> SUFFICES ASSUME ~ Good(S) PROVE FALSE  OBVIOUS
<1>1. PICK T \in B : \A x \in T : T \ {x} \notin B
  <2>1. B \subseteq SUBSET S /\ S \in B  OBVIOUS
  <2> HIDE DEF B
  <2> QED  BY <2>1, LeastSubset
<1>2. T \in SUBSET S /\ ~ Good(T) /\ IsFiniteSet(T)  BY <1>1, FS_Subset
<1>3. T # {}
  <2>1. Good({})  BY SumEmpty
  <2> HIDE DEF Good
  <2> QED  BY <1>2, <2>1
<1>4. PICK x : x \in T  BY <1>3
<1>5. Good(T \ {x})  BY <1>1, <1>4
<1>6. \A y \in T : f[y] \in Int /\ g[y] \in Int  BY <1>2
<1>7. /\ SumFunctionOnSet(f, T) = f[x] + SumFunctionOnSet(f, T \ {x})
      /\ SumFunctionOnSet(g, T) = g[x] + SumFunctionOnSet(g, T \ {x})
  BY <1>2, <1>4, <1>6, SumSplits
<1>8. /\ SumFunctionOnSet(f, T \ {x}) \in Int
      /\ SumFunctionOnSet(g, T \ {x}) \in Int
  <2>1. IsFiniteSet(T \ {x})  BY <1>2, FS_RemoveElement
  <2> QED  BY <1>6, <2>1, SumInt
<1>9. f[x] <= g[x] /\ f[x] \in Int /\ g[x] \in Int  BY <1>2, <1>4
<1>10. Good(T)  BY <1>5, <1>7, <1>8, <1>9
<1> QED  BY <1>2, <1>10

\* A sum of multiples is the multiple of the sum.
THEOREM SumScaled ==
    ASSUME NEW S, IsFiniteSet(S), NEW k \in Int, NEW f, NEW h,
           \A x \in S : f[x] \in Int /\ h[x] = k * f[x]
    PROVE  SumFunctionOnSet(h, S) = k * SumFunctionOnSet(f, S)
<1> DEFINE Good(T) == SumFunctionOnSet(h, T) = k * SumFunctionOnSet(f, T)
           B == {T \in SUBSET S : ~ Good(T)}
<1> SUFFICES ASSUME ~ Good(S) PROVE FALSE  OBVIOUS
<1>1. PICK T \in B : \A x \in T : T \ {x} \notin B
  <2>1. B \subseteq SUBSET S /\ S \in B  OBVIOUS
  <2> HIDE DEF B
  <2> QED  BY <2>1, LeastSubset
<1>2. T \in SUBSET S /\ ~ Good(T) /\ IsFiniteSet(T)  BY <1>1, FS_Subset
<1>3. T # {}
  <2>1. SumFunctionOnSet(h, {}) = 0 /\ SumFunctionOnSet(f, {}) = 0  BY SumEmpty
  <2>2. Good({})  BY <2>1
  <2> HIDE DEF Good
  <2> QED  BY <1>2, <2>2
<1>4. PICK x : x \in T  BY <1>3
<1>5. Good(T \ {x})  BY <1>1, <1>4
<1>6. \A y \in T : f[y] \in Int /\ h[y] \in Int  BY <1>2
<1>7. /\ SumFunctionOnSet(f, T) = f[x] + SumFunctionOnSet(f, T \ {x})
      /\ SumFunctionOnSet(h, T) = h[x] + SumFunctionOnSet(h, T \ {x})
  BY <1>2, <1>4, <1>6, SumSplits
<1>8. SumFunctionOnSet(f, T \ {x}) \in Int
  <2>1. IsFiniteSet(T \ {x})  BY <1>2, FS_RemoveElement
  <2> QED  BY <1>6, <2>1, SumInt
<1>9. f[x] \in Int /\ h[x] = k * f[x]  BY <1>2, <1>4
<1>10. \A a, b \in Int : k * (a + b) = k * a + k * b  OBVIOUS
<1>11. Good(T)  BY <1>5, <1>7, <1>8, <1>9, <1>10
<1> QED  BY <1>2, <1>11

\* A part of a set has no larger a sum, when no term is negative.
THEOREM SumPart ==
    ASSUME NEW S, IsFiniteSet(S), NEW R, R \subseteq S, NEW f, \A x \in S : f[x] \in Nat
    PROVE  SumFunctionOnSet(f, R) <= SumFunctionOnSet(f, S)
<1> DEFINE Good(T) == R \subseteq T => SumFunctionOnSet(f, R) <= SumFunctionOnSet(f, T)
           B == {T \in SUBSET S : ~ Good(T)}
<1> SUFFICES ASSUME ~ Good(S) PROVE FALSE  OBVIOUS
<1>1. PICK T \in B : \A x \in T : T \ {x} \notin B
  <2>1. B \subseteq SUBSET S /\ S \in B  OBVIOUS
  <2> HIDE DEF B
  <2> QED  BY <2>1, LeastSubset
<1>2. T \in SUBSET S /\ ~ Good(T) /\ R \subseteq T /\ IsFiniteSet(T) /\ IsFiniteSet(R)
  BY <1>1, FS_Subset
<1>3. \A y \in T : f[y] \in Int /\ f[y] \in Nat  BY <1>2
<1>4. SumFunctionOnSet(f, R) \in Int
  <2>1. \A y \in R : f[y] \in Int  BY <1>2, <1>3
  <2> QED  BY <1>2, <2>1, SumInt
<1>5. R # T  BY <1>2, <1>4
<1>6. PICK x \in T : x \notin R  BY <1>2, <1>5
<1>7. Good(T \ {x}) /\ R \subseteq T \ {x}  BY <1>1, <1>2, <1>6
<1>8. SumFunctionOnSet(f, T) = f[x] + SumFunctionOnSet(f, T \ {x})
  BY <1>2, <1>3, SumSplits
<1>9. SumFunctionOnSet(f, T \ {x}) \in Int
  <2>1. IsFiniteSet(T \ {x})  BY <1>2, FS_RemoveElement
  <2> QED  BY <1>3, <2>1, SumInt
<1>10. f[x] \in Nat  BY <1>3
<1>11. Good(T)  BY <1>4, <1>7, <1>8, <1>9, <1>10
<1> QED  BY <1>2, <1>11

\* A sum does not depend on what the terms are counted by.
THEOREM SumRenamed ==
    ASSUME NEW S, IsFiniteSet(S), NEW g, \A x, y \in S : g[x] = g[y] => x = y,
           NEW f, NEW h, \A x \in S : f[g[x]] \in Int /\ h[x] = f[g[x]]
    PROVE  /\ IsFiniteSet({g[x] : x \in S})
           /\ SumFunctionOnSet(h, S) = SumFunctionOnSet(f, {g[x] : x \in S})
<1> DEFINE Image(T) == {g[x] : x \in T}
           Good(T) == /\ IsFiniteSet(Image(T))
                      /\ SumFunctionOnSet(h, T) = SumFunctionOnSet(f, Image(T))
           B == {T \in SUBSET S : ~ Good(T)}
<1> SUFFICES ASSUME ~ Good(S) PROVE FALSE  OBVIOUS
<1>1. PICK T \in B : \A x \in T : T \ {x} \notin B
  <2>1. B \subseteq SUBSET S /\ S \in B  OBVIOUS
  <2> HIDE DEF B
  <2> QED  BY <2>1, LeastSubset
<1>2. T \in SUBSET S /\ ~ Good(T) /\ IsFiniteSet(T)  BY <1>1, FS_Subset
<1>3. T # {}
  <2>1. Image({}) = {}  OBVIOUS
  <2>2. IsFiniteSet({})  BY FS_EmptySet
  <2>3. SumFunctionOnSet(h, {}) = 0 /\ SumFunctionOnSet(f, {}) = 0  BY SumEmpty
  <2>4. Good({})  BY <2>1, <2>2, <2>3
  <2> HIDE DEF Good
  <2> QED  BY <1>2, <2>4
<1>4. PICK x : x \in T  BY <1>3
<1> DEFINE U == T \ {x}
<1>5. Good(U)  BY <1>1, <1>4
<1>6. \A y \in T : h[y] \in Int /\ f[g[y]] \in Int /\ h[y] = f[g[y]]  BY <1>2
<1>7. SumFunctionOnSet(h, T) = h[x] + SumFunctionOnSet(h, U)
  BY <1>2, <1>4, <1>6, SumSplits
<1>8. Image(T) = Image(U) \cup {g[x]} /\ g[x] \notin Image(U)  BY <1>2, <1>4
<1>9. \A z \in Image(U) \cup {g[x]} : f[z] \in Int  BY <1>4, <1>6
<1>10. IsFiniteSet(Image(U))  BY <1>5
<1> HIDE DEF Image
<1>11. SumFunctionOnSet(f, Image(U) \cup {g[x]}) = f[g[x]] + SumFunctionOnSet(f, Image(U))
  BY <1>8, <1>9, <1>10, SumAdds
<1>12. IsFiniteSet(Image(U) \cup {g[x]})  BY <1>10, FS_AddElement
<1>13. h[x] = f[g[x]]  BY <1>4, <1>6
<1>14. Good(T)  BY <1>5, <1>7, <1>8, <1>11, <1>12, <1>13
<1> QED  BY <1>2, <1>14

------------------------------------------------------------------------------
(* Folds.                                                                  *)

LastOf(s) == [T \in SUBSET DOMAIN s |-> CHOOSE x \in T : \A y \in T : x >= y]

\* The last index of a part of a sequence is one of its own.
LEMMA LastOfPicks ==
    ASSUME NEW V, NEW s \in Seq(V)
    PROVE  Picks(DOMAIN s, LastOf(s))
<1> SUFFICES ASSUME NEW T \in SUBSET DOMAIN s, T # {} PROVE \E x \in T : \A y \in T : x >= y
  BY DEF Picks, LastOf
<1> DEFINE M == {Len(s) - x : x \in T}
<1>1. DOMAIN s = 1 .. Len(s) /\ Len(s) \in Nat  OBVIOUS
<1>2. \A x \in T : x \in Int /\ Len(s) - x \in Nat  BY <1>1
<1>3. M \subseteq Nat /\ M # {}  BY <1>2
<1>4. PICK m \in M : \A y \in M : m <= y
  <2> HIDE DEF M
  <2> QED  BY <1>3, LeastNatural
<1>5. PICK x \in T : m = Len(s) - x  BY <1>4
<1>6. \A y \in T : Len(s) - x <= Len(s) - y  BY <1>4, <1>5
<1> QED  BY <1>1, <1>2, <1>5, <1>6

\* The library's fold is the unfolding that picks the last index.
LEMMA FoldUnfolds ==
    ASSUME NEW V, NEW s \in Seq(V), NEW c, NEW start
    PROVE  \E g : Unfolds(Fold(c, start), DOMAIN s, LastOf(s), s, g) /\ Folded(c, start, s) = g[DOMAIN s]
<1> DEFINE S == DOMAIN s
           Is(g) == g = [T \in SUBSET S |->
                            IF T = {} THEN start
                            ELSE Op(c, g[T \ {Max(T)}], s[Max(T)])]
<1>1. \A g : Unfolds(Fold(c, start), S, LastOf(s), s, g) <=> Is(g)
  <2> TAKE g
  <2>1. \A T \in SUBSET S :
            Body(Fold(c, start), LastOf(s), s, g, T)
              = IF T = {} THEN start ELSE Op(c, g[T \ {Max(T)}], s[Max(T)])
    BY DEF Body, Base, Step, Fold, LastOf, Max
  <2> QED  BY <2>1 DEF Unfolds
<1>2. IsFiniteSet(S)
  <2>1. S = 1 .. Len(s) /\ Len(s) \in Nat  OBVIOUS
  <2> QED  BY <2>1, FS_Interval
<1>3. \E g : Is(g)  BY <1>1, <1>2, LastOfPicks, UnfoldingExists
<1> DEFINE iter == CHOOSE g : Is(g)
<1>4. Is(iter)
  <2> HIDE DEF Is
  <2> QED  BY <1>3
<1>5. Folded(c, start, s) = iter[S]  BY DEF Folded, FoldLeft, MapThenFoldSet
<1> QED  BY <1>1, <1>4, <1>5

\* The fold of nothing is where it started.
THEOREM FoldedEmpty == ASSUME NEW c, NEW start PROVE Folded(c, start, <<>>) = start
<1>1. <<>> \in Seq({}) /\ DOMAIN <<>> = {}  OBVIOUS
<1>2. PICK g : Unfolds(Fold(c, start), DOMAIN <<>>, LastOf(<<>>), <<>>, g) /\ Folded(c, start, <<>>) = g[DOMAIN <<>>]
  BY <1>1, FoldUnfolds
<1>3. Folded(c, start, <<>>) = g[{}] /\ g[{}] = Body(Fold(c, start), LastOf(<<>>), <<>>, g, {})
  BY <1>1, <1>2 DEF Unfolds
<1> QED  BY <1>3 DEF Body, Base, Fold

\* One more element is one more step.
THEOREM FoldedAppend ==
    ASSUME NEW V, NEW s \in Seq(V), NEW e \in V, NEW c, NEW start
    PROVE  Folded(c, start, Append(s, e)) = Op(c, Folded(c, start, s), e)
<1> DEFINE t == Append(s, e)
           n == Len(s) + 1
<1>1. /\ DOMAIN s = 1 .. Len(s) /\ Len(s) \in Nat
      /\ t \in Seq(V) /\ DOMAIN t = 1 .. n
      /\ t[n] = e /\ \A i \in DOMAIN s : t[i] = s[i]
  OBVIOUS
<1>2. n \in DOMAIN t /\ DOMAIN t \ {n} = DOMAIN s /\ DOMAIN s \subseteq DOMAIN t  BY <1>1
<1>3. PICK g : Unfolds(Fold(c, start), DOMAIN s, LastOf(s), s, g) /\ Folded(c, start, s) = g[DOMAIN s]
  BY FoldUnfolds
<1>4. PICK h : Unfolds(Fold(c, start), DOMAIN t, LastOf(t), t, h) /\ Folded(c, start, t) = h[DOMAIN t]
  BY <1>1, FoldUnfolds
<1>5. LastOf(t)[DOMAIN t] = n
  <2>1. LastOf(t)[DOMAIN t] = CHOOSE x \in DOMAIN t : \A y \in DOMAIN t : x >= y  BY DEF LastOf
  <2>2. \A x \in DOMAIN t : (\A y \in DOMAIN t : x >= y) <=> x = n  BY <1>1
  <2> HIDE DEF t, n
  <2> QED  BY <1>2, <2>1, <2>2
<1> HIDE DEF t, n
<1>6. h[DOMAIN t] = Op(c, h[DOMAIN s], e)
  <2>1. h[DOMAIN t] = Body(Fold(c, start), LastOf(t), t, h, DOMAIN t)  BY <1>4 DEF Unfolds
  <2>2. DOMAIN t # {}  BY <1>2
  <2> QED  BY <1>1, <1>2, <1>5, <2>1, <2>2 DEF Body, Step, Fold
<1>7. \A T \in SUBSET DOMAIN s : LastOf(s)[T] = LastOf(t)[T]  BY <1>2 DEF LastOf
<1>8. IsFiniteSet(DOMAIN s)  BY <1>1, FS_Interval
<1>9. g[DOMAIN s] = h[DOMAIN s]
  <2> DEFINE S == DOMAIN t
             W == DOMAIN s
             p == LastOf(t)
             q == LastOf(s)
  <2>1. Unfolds(Fold(c, start), W, q, s, g) /\ Unfolds(Fold(c, start), S, p, t, h)  BY <1>3, <1>4
  <2>2. IsFiniteSet(W) /\ W \subseteq S /\ W \subseteq W  BY <1>2, <1>8
  <2>3. Picks(W, q) /\ \A T \in SUBSET W : q[T] = p[T]  BY <1>7, LastOfPicks
  <2>4. \A x \in W : s[x] = t[x]  BY <1>1
  <2> HIDE DEF S, W, p, q
  <2>5. g[W] = h[W]  BY <2>1, <2>2, <2>3, <2>4, UnfoldingUnique
  <2> QED  BY <2>5 DEF W
<1> QED  BY <1>3, <1>4, <1>6, <1>9 DEF t

\* A state that every element keeps in V stays there: induction over the
\* elements folded so far.
THEOREM FoldedKeeps ==
    ASSUME NEW E, NEW s \in Seq(E), NEW c, NEW V, NEW start \in V,
           \A b \in V, e \in E : Op(c, b, e) \in V
    PROVE  Folded(c, start, s) \in V
<1>1. DOMAIN s = 1 .. Len(s) /\ Len(s) \in Nat  OBVIOUS
<1>2. PICK g : /\ Unfolds(Fold(c, start), DOMAIN s, LastOf(s), s, g)
               /\ Folded(c, start, s) = g[DOMAIN s]
  BY FoldUnfolds
<1> DEFINE P == {n \in Nat : n <= Len(s) => g[1 .. n] \in V}
<1>3. 0 \in P
  <2>1. g[{}] = start  BY <1>2 DEF Unfolds, Body, Base, Fold
  <2>2. 1 .. 0 = {}  OBVIOUS
  <2> QED  BY <2>1, <2>2
<1>4. ASSUME NEW n \in Nat, n \in P PROVE n + 1 \in P
  <2> SUFFICES ASSUME n + 1 <= Len(s) PROVE g[1 .. (n + 1)] \in V  OBVIOUS
  <2> DEFINE T == 1 .. (n + 1)
  <2>1. T \in SUBSET DOMAIN s /\ n + 1 \in T /\ T \ {n + 1} = 1 .. n  BY <1>1
  <2>2. LastOf(s)[T] = n + 1
    <3>1. LastOf(s)[T] = CHOOSE x \in T : \A y \in T : x >= y  BY <2>1 DEF LastOf
    <3>2. \A x \in T : x \in Int /\ x <= n + 1  OBVIOUS
    <3> HIDE DEF T
    <3>3. \A y \in T : n + 1 >= y  BY <3>2
    <3>4. \A x \in T : (\A y \in T : x >= y) => x = n + 1  BY <2>1, <3>2
    <3> QED  BY <2>1, <3>1, <3>3, <3>4
  <2>3. g[1 .. n] \in V  BY <1>1, <1>4
  <2>4. s[n + 1] \in E  BY <1>1
  <2> HIDE DEF T
  <2>5. g[T] = Op(c, g[1 .. n], s[n + 1])
    BY <1>2, <2>1, <2>2 DEF Unfolds, Body, Step, Fold
  <2> QED  BY <2>3, <2>4, <2>5 DEF T
<1>5. Nat \subseteq P
  <2> HIDE DEF P
  <2> QED  BY <1>3, <1>4, NaturalsAll
<1>6. g[1 .. Len(s)] \in V  BY <1>1, <1>5
<1> QED  BY <1>1, <1>2, <1>6
==============================================================================
