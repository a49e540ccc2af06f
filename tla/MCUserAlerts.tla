----------------------------- MODULE MCUserAlerts -----------------------------
(* A small instance of UserAlerts for TLC. *)
EXTENDS UserAlerts, TLC

CONSTANTS t1, a1, a2

\* The alerts are alike, and nothing checked with it is a liveness property.
AlikeAlerts == Permutations(Alerts)
==============================================================================
