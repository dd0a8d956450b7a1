----------------------------- MODULE MCAccounts -----------------------------
(***************************************************************************)
(* Instances of Accounts for TLC.                                          *)
(***************************************************************************)
EXTENDS Accounts, TLC

AllFaults == FaultKinds

Symmetric == Permutations(Wallets) \union Permutations(UserIds)
                \union Permutations(Attempts) \union Permutations(Requests)
=============================================================================
