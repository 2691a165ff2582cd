----------------------------- MODULE MCWorkLock -----------------------------
(* One application, one platform thread, the MCU and a cloud client, each     *)
(* with at most two locks at a time.                                          *)
EXTENDS WorkLock
CONSTANTS app, local
MCAppUser == {app}
MCLocalUser == {local}
=============================================================================
