---------------------------- MODULE MCIpcMsgRead ----------------------------
(* One message of one cache line and one of two, a ring of three lines.       *)
EXTENDS IpcMsgRead, TLC

CONSTANTS a, b

MCMsg == {a, b}
MCDataLen == (a :> 1) @@ (b :> 2)
=============================================================================
