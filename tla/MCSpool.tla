------------------------------ MODULE MCSpool ------------------------------
(* Transactions below, at, just above and well above a cap of 2, and an    *)
(* empty one.                                                              *)
EXTENDS Spool

MCSizes == <<4, 2, 0, 3, 1>>
=============================================================================
