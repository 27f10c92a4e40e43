----------------------------- MODULE MCAccounts -----------------------------
(***************************************************************************)
(* TLC instances of Accounts.  Users, addresses, token ids and request     *)
(* slots are only ever compared for equality.                              *)
(***************************************************************************)
EXTENDS Accounts, TLC

Symmetry ==
  Permutations(Users) \cup Permutations(Emails) \cup Permutations(Tok) \cup Permutations(Requests)
=============================================================================
