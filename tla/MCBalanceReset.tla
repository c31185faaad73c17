--------------------------- MODULE MCBalanceReset ---------------------------
(* A small instance of BalanceReset for TLC: one full batch of users, and  *)
(* one user more who may come.                                             *)
EXTENDS BalanceReset
=============================================================================
