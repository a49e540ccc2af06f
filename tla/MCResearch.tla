------------------------------ MODULE MCResearch ------------------------------
(* A small instance of Research for TLC. *)
EXTENDS Research

CONSTANTS t1

\* Support at 1 and resistance at 2.
Chart == [supports |-> {1}, resistances |-> {2}, atr |-> 0, insufficient |-> FALSE]

Analysis(action, fundamental) ==
    [action |-> action, fundamental |-> fundamental, technical |-> 50, event |-> FALSE,
     chart |-> Chart]

\* A name to buy and a weak one to watch.
TwoAnalyses == {Analysis("BUY", 60), Analysis("WATCH", 20)}

OneDay == [s \in Strategies |-> 1]
==============================================================================
