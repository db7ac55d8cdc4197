----------------------------- MODULE MCAccounts -----------------------------
(***************************************************************************)
(* Accounts for TLC: four requests, two passwords, two reset links, and a  *)
(* lock after two wrong passwords instead of five.                         *)
(***************************************************************************)
EXTENDS Accounts, TLC

\* The requests are interchangeable.
Symmetry == Permutations(Calls) \cup Permutations(Links) \cup Permutations(Passwords)

=============================================================================
