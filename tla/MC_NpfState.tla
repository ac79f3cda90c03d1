---------------------------- MODULE MC_NpfState ----------------------------
(* Model-checking instance of NpfState: two lcores and two session state   *)
(* records, each reused by successive sessions of any protocol.           *)
EXTENDS NpfState

CONSTANTS c1, c2, r1, r2

MC_Cores == {c1, c2}
MC_Records == {r1}
MC_Protos == {"tcp", "udp", "icmp"}
(* UDP sessions only: the report and the single-question runs. *)
MC_UdpProtos == {"udp"}

(* Protobuf sync: ESTABLISHED and CLOSE_WAIT (6), and one ordinal past   *)
(* the last of each enum (version skew).                                  *)
MC_GenSyncIn == {SESSION_STATE_ESTABLISHED, SESSION_STATE_LAST + 1}
MC_TcpSyncIn == {6, NPF_TCPS_LAST + 1}
(* Binary sync: TERMINATING, TIME_WAIT (11). *)
MC_GenPackIn == {SESSION_STATE_TERMINATING}
MC_TcpPackIn == {11}
(* Validator verdicts: SYN_SENT (1) and ESTABLISHED. *)
MC_TcpValidatorOut == {1, NPF_TCPS_ESTABLISHED}

(* The per-lcore counters are a random walk when the lcores take turns   *)
(* on one record (a move on c2 of what c1 counted leaves -1 on c2 and +1  *)
(* on c1); exploration stops once the counters hold more than MaxSkew    *)
(* units in total.                                                       *)
MaxSkew == 4
StatsBounded ==
    MapThenSumSet(LAMBDA cb : IF stats[cb[1]][cb[2]] < 0 THEN -stats[cb[1]][cb[2]]
                                                     ELSE stats[cb[1]][cb[2]],
                  Cores \X {b \in Buckets : b[1] \in Protos}) <= MaxSkew

(* The session's state (sessView) and the value a notification has read  *)
(* are written and never read by any other step, so states that differ   *)
(* only in them have the same futures for every property other than     *)
(* SessionViewConverges; the engine run identifies them.                 *)
EngineView ==
    <<proto, life, gen, tcp, stats, icmpStrict,
      [c \in Cores |-> <<pending[c].rec, pending[c].read = <<>>>>],
      reportQ, reportTmp, reports, opener, sessions>>
====
