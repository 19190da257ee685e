----------------------------- MODULE MCAccounts -----------------------------
(* Accounts alone, for its liveness and for one refuted claim. *)
EXTENDS Accounts
=============================================================================
