------------------------------ MODULE MC_TwampCtrl ------------------------------
(* Two address families, two local ports and two VRFs: sessions in     *)
(* different VRFs (or with different remote ends) share a local port,    *)
(* which is the case the port bookkeeping must get right.                *)
EXTENDS TwampCtrl

CONSTANTS v1, v2

MC_AFs == {2, 10}   \* AF_INET, AF_INET6
MC_Ports == {862, 863}
MC_Vrfs == {v1, v2}
(* Modes the dataplane knows.  A mode outside them makes the create     *)
(* unlink an entry that was never listed (a crash), so it is not sent.   *)
MC_Modes == {MODE_OPEN, MODE_AUTHENTICATED}
================================================================================
