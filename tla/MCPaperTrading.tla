---------------------------- MODULE MCPaperTrading ----------------------------
(* A small instance of PaperTrading for TLC. *)
EXTENDS PaperTrading

CONSTANTS t1, t2

\* The tickers are alike, and only invariants are checked.
AlikeTickers == Permutations(Tickers)
==============================================================================
