--------------------------- MODULE MC_NpfStateSync ---------------------------
(***************************************************************************)
(* NpfStateSync for TLC: one TCP and one UDP record, window fields over   *)
(* {0, 1} plus the value 2 that only a version-skewed peer sends.         *)
(***************************************************************************)
EXTENDS NpfStateSync, TLC

CONSTANTS r1, r2

MC_Records == {r1, r2}
MC_ProtoOf == (r1 :> "tcp") @@ (r2 :> "udp")

AllFields == [d \in FlowDirs |-> TcpFields]
WinsOf(v) == [d \in FlowDirs |-> [f \in TcpFields |-> v]]

(* A newer peer: a TCP state past NPF_TCPS_LAST with windows it fills in. *)
TcpSkewMsg == [proto |-> "tcp", state |-> NPF_TCPS_LAST + 1, nwins |-> 2,
               win |-> WinsOf(2), has |-> AllFields, src |-> <<>>]
(* An older peer: ESTABLISHED, windows without tw_wscale. *)
TcpOldMsg == [proto |-> "tcp", state |-> NPF_TCPS_ESTABLISHED, nwins |-> 2,
              win |-> WinsOf(1),
              has |-> [d \in FlowDirs |-> TcpFields \ {"wscale"}], src |-> <<>>]
(* A newer peer: a generic state past SESSION_STATE_LAST. *)
GenSkewMsg == [proto |-> "udp", state |-> SESSION_STATE_LAST + 1, nwins |-> 0,
               win |-> ZeroWins, has |-> NoHas, src |-> <<>>]

MC_PeerMsgs == {TcpSkewMsg, TcpOldMsg, GenSkewMsg}

====
