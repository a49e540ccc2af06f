----------------------------- MODULE MCPaperOrders -----------------------------
(* A small instance of PaperOrders for TLC. *)
EXTENDS PaperOrders

CONSTANTS t1, r1, r2
==============================================================================
