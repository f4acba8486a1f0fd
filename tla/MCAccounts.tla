----------------------------- MODULE MCAccounts -----------------------------
(* Small instances of Accounts for TLC. *)
EXTENDS Accounts, TLC

\* Requests are interchangeable.
Symmetry == Permutations(Requests)
=============================================================================
