----------------------------- MODULE MCLedger -----------------------------
(* Ledger for TLC: polls and passes overlap and a process stops once.      *)
EXTENDS Ledger
=============================================================================
