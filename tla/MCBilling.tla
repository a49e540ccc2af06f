------------------------------ MODULE MCBilling ------------------------------
(* Small instances of Billing for TLC. *)
EXTENDS Billing

CONSTANTS u1, r1, r2, scheduler

\* A gateway reports success and failure, in any order and any number of times.
Reports == {"SUCCEEDED", "FAILED"}
==============================================================================
