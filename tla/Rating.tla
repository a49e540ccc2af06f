-------------------------------- MODULE Rating --------------------------------
(***************************************************************************)
(* The labels published for a name (src/backend/research/rating.py), read  *)
(* off its master score: a band, a confidence, a horizon and a category.   *)
(***************************************************************************)
EXTENDS AlphaScore

RatingBands == << <<80, "STRONG_BUY">>, <<65, "BUY">>, <<45, "HOLD">>, <<32, "REDUCE">>, <<0, "SELL">> >>

\* The first band the score reaches.
Band(score) ==
    RatingBands[Min({i \in DOMAIN RatingBands : score >= RatingBands[i][1]})][2]

MinCoverageForRating == 45

NotRated == [available |-> FALSE, code |-> "NONE", confidence |-> "LOW",
             horizon |-> "NONE", category |-> "UNCLASSIFIED"]

\* Reading the confidence off the coverage alone.
ConfidenceOfCoverage(alpha) == IF alpha.coverage < 70 THEN "LOW" ELSE "HIGH"

\* Starts from the confidence of the score and is only reduced; a score that
\* is not even verified counts as low.
RatingConfidence(alpha) ==
    LET base == Max({0, ConfidenceRank[alpha.confidence] - 1})
        accounts == IF alpha.parts["fundamental"] = NA THEN Min({base, 1}) ELSE base
        fresh == IF alpha.stale THEN Max({0, accounts - 1}) ELSE accounts
        covered == IF alpha.coverage < 70 THEN Min({fresh, 1}) ELSE fresh
    IN  <<"LOW", "MEDIUM", "HIGH">>[covered + 1]

\* What drives the score sets the horizon: accounts are slower than prices.
Horizon(fundamental, technical) ==
    CASE Known(fundamental) /\ Known(technical) ->
            IF fundamental - technical >= 12 THEN "LONG"
            ELSE IF fundamental - technical <= -12 THEN "SHORT" ELSE "MEDIUM"
      [] Known(fundamental) /\ technical = NA -> "LONG"
      [] fundamental = NA /\ Known(technical) -> "SHORT"
      [] fundamental = NA /\ technical = NA -> "MEDIUM"

Category(fundamental, technical) ==
    CASE Known(fundamental) /\ Known(technical) ->
            IF fundamental >= 60 /\ technical >= 60 THEN "HYBRID"
            ELSE IF fundamental >= technical THEN "FUNDAMENTAL" ELSE "TECHNICAL"
      [] Known(fundamental) /\ technical = NA -> "FUNDAMENTAL"
      [] fundamental = NA /\ Known(technical) -> "TECHNICAL"
      [] fundamental = NA /\ technical = NA -> "UNCLASSIFIED"

\* Without a score, or on too little of the inputs, nothing is published.
DeriveRating(alpha) ==
    LET fundamental == alpha.parts["fundamental"]
        technical == alpha.parts["technical"]
    IN  IF alpha.value = NA \/ alpha.coverage < MinCoverageForRating THEN NotRated
        ELSE [available |-> TRUE, code |-> Band(alpha.value),
              confidence |-> RatingConfidence(alpha),
              horizon |-> Horizon(fundamental, technical),
              category |-> Category(fundamental, technical)]
==============================================================================
