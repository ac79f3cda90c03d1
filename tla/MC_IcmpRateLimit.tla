--------------------------- MODULE MC_IcmpRateLimit ---------------------------
(***************************************************************************)
(* IcmpRateLimit for TLC: two lcores, two named ICMP types (destination   *)
(* unreachable and time exceeded), maxima 1 and 2, unicast and broadcast  *)
(* trigger packets.                                                        *)
(***************************************************************************)
EXTENDS IcmpRateLimit

CONSTANTS c1, c2

MC_Cores == {c1, c2}
ICMP_DEST_UNREACH == 3
ICMP_TIME_EXCEEDED == 11
MC_Named == {ICMP_DEST_UNREACH, ICMP_TIME_EXCEEDED}

(* A unicast trigger that gets its error, and a link broadcast one that *)
(* icmp_do_error suppresses after the rate limit.                        *)
Plain == [crypto |-> FALSE, nonfirst |-> FALSE, l2mc |-> FALSE, icmperr |-> FALSE]
MC_Triggers == {Plain, [Plain EXCEPT !.l2mc = TRUE]}

====
