------------------------------- MODULE MC_CgnCfg -------------------------------
(* Two interfaces and two policies: stored attaches of both interfaces   *)
(* interleave on the replay list, and each command can name a policy     *)
(* that exists, one that does not, or none.                              *)
EXTENDS CgnCfg

CONSTANTS i1, i2, p1, p2, none

MC_Ifnames == {i1, i2}
MC_Policies == {p1, p2}
(* Out of range, 0 (the maximum) and an ordinary value. *)
MC_SessionsArgs == {-1, 0, 100}
MC_DestArgs == {-1, 0, 16, 40000}
MC_TimeoutItems == {"udp-opening", "udp-estab"}
MC_TimeoutArgs == {-1, 30}
================================================================================
