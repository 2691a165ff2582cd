----------------------------- MODULE MCAtSocket -----------------------------
(* AtSocket with two slots and two descriptors. *)
EXTENDS AtSocket, TLC

CONSTANTS c1, c2, r1, r2

MCCtxs == {c1, c2}
MCReceivers == {r1, r2}
=============================================================================
