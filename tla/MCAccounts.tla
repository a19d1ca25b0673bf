----------------------------- MODULE MCAccounts -----------------------------
(* An instance of Accounts for TLC. *)
EXTENDS Accounts, TLC

Symmetry == UNION {Permutations(S) : S \in {Requests, Ids, Tokens, Emails, Names, Secrets}}
=============================================================================
