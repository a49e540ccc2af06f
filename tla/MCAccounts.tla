----------------------------- MODULE MCAccounts -----------------------------
(* Small instances of Accounts for TLC. *)
EXTENDS Accounts, TLC

CONSTANTS e1, e2, p1, p2, r1, r2

\* Nothing tells the threads apart, nor the passwords, nor the addresses (while
\* none is configured as an administrator's).
Symmetry == Permutations(Requests) \cup Permutations(Passwords) \cup Permutations(Emails)

\* Sign-ins overlap everything; no two of the others overlap.
AllButLogin == Operations \ {"login"}

\* Changes of role overlap everything too.
AllButLoginAndRole == Operations \ {"login", "role"}
==============================================================================
