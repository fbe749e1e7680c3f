------------------------------ MODULE MCFence ------------------------------
(* Instances of Fence for TLC. *)
EXTENDS Fence

(* Two transactions, one with two events.                                  *)
TwoTransactions == <<2, 1>>
=============================================================================
