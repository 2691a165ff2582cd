--------------------------- MODULE MCIpcMsgWrite ---------------------------
(* Two threads, one message of one cache line and one of two, a ring of three *)
(* or four lines of two words.                                                *)
EXTENDS IpcMsgWrite, TLC

CONSTANTS a, b

MCMsg == {a, b}
MCDataLen == (a :> 1) @@ (b :> 2)

Symm == Permutations(Thread)
=============================================================================
