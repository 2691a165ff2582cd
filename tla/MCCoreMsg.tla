----------------------------- MODULE MCCoreMsg -----------------------------
(* CoreMsg with buffers of the DSP in both kinds of memory. *)
EXTENDS CoreMsg, TLC

CONSTANTS d1, p1, a1, a2, u1, u2

MCArmBufs == {a1, a2}
MCApps == {u1, u2}
=============================================================================
