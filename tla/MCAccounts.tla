----------------------------- MODULE MCAccounts -----------------------------
(***************************************************************************)
(* An instance of Accounts for TLC: one address, two calls at a time,      *)
(* three refresh tokens, two countries.                                    *)
(***************************************************************************)
EXTENDS Accounts, TLC

CONSTANTS c1, c2

AnyCall == Permutations(Calls)
====
