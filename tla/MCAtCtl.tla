------------------------------- MODULE MCAtCtl -------------------------------
(* One command of every kind that the MCU sends one at a time, or two for the *)
(* protocol stack and one for xy_proxy with a critical command among them.    *)
EXTENDS AtCtl, TLC
CONSTANTS p, p2, b, f, a, n, x, k
MCCmd == {p, p2, b, f, a, n, x, k}
MCKind == (p :> "ps") @@ (p2 :> "ps") @@ (b :> "basic") @@ (f :> "fwd") @@ (a :> "asyn")
          @@ (n :> "nv") @@ (x :> "bad") @@ (k :> "basic")
MCMenus == {{p, b, f, a, n, x}, {p, p2, k}, {p, b, k}, {f, b, k}}
\* For the promises that do not hold: a slow command, a critical one, and
\* AT+NV=SET,LOG or a command that xy_proxy forwards.
MCMenusNv == {{p, k, n}}
MCMenusFwd == {{p, f, k}}
MCMenusCritical == {{p, k}}
=============================================================================
