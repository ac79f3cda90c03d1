---------------------------------- MODULE MC_Rldb ----------------------------------
(* Two short names, a name whose suffix is cut off, a bad name and a     *)
(* NULL name; flag sets with one, both and no address family.           *)
EXTENDS Rldb

CONSTANTS a, b, long, bad, null

MC_Names == {a, b}
MC_LongNames == {long}
MC_BadNames == {bad}
MC_Flags == {{"V4"}, {"V6"}, {"V4", "V6"}, {}}
=============================================================================
