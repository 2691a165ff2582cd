---------------------------- MODULE MCLowPower ----------------------------
(* A small instance of LowPower.                                              *)
EXTENDS LowPower
=============================================================================
