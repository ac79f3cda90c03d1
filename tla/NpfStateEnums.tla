---------------------------- MODULE NpfStateEnums ----------------------------
(***************************************************************************)
(* The enumerations of the NPF state engine (npf_state.h, session.h) and   *)
(* the fixed TCP-to-generic projection, shared by NpfState and             *)
(* NpfStateSync.                                                           *)
(***************************************************************************)
EXTENDS Integers

(* enum npf_proto_idx *)
ProtoIdx == {"tcp", "udp", "icmp", "other"}

(* enum dp_session_state; SESSION_STATE_NONE is 0 *)
SESSION_STATE_NONE        == 0
SESSION_STATE_NEW         == 1
SESSION_STATE_ESTABLISHED == 2
SESSION_STATE_TERMINATING == 3
SESSION_STATE_CLOSED      == 4
SESSION_STATE_LAST        == SESSION_STATE_CLOSED
GenStates == 0 .. SESSION_STATE_LAST

(* enum tcp_session_state, in the order of npf_state_tcp_name[] *)
NPF_TCPS_NONE        == 0
NPF_TCPS_ESTABLISHED == 4
NPF_TCPS_CLOSED      == 13
NPF_TCPS_LAST        == NPF_TCPS_CLOSED
TcpStates == 0 .. NPF_TCPS_LAST

(* enum npf_flow_dir *)
NPF_FLOW_FORW == 0
NPF_FLOW_BACK == 1
FlowDirs == {NPF_FLOW_FORW, NPF_FLOW_BACK}

(***************************************************************************)
(* npf_state_tcp2gen (npf_state.h): fixed projection of TCP states.        *)
(***************************************************************************)
npf_state_tcp2gen(s) ==
    CASE s = NPF_TCPS_NONE        -> SESSION_STATE_NONE
      [] s \in 1 .. 3             -> SESSION_STATE_NEW
      [] s = NPF_TCPS_ESTABLISHED -> SESSION_STATE_ESTABLISHED
      [] s \in 5 .. 12            -> SESSION_STATE_TERMINATING
      [] s = NPF_TCPS_CLOSED      -> SESSION_STATE_CLOSED

=============================================================================
