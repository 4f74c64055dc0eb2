---------------------------- MODULE MCAccounts ----------------------------
(* Small instance of Accounts: two requests at a time, in either slot. *)
EXTENDS Accounts, TLC

Slots == Permutations(Requests)
=============================================================================
