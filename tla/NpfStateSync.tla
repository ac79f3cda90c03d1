----------------------------- MODULE NpfStateSync -----------------------------
(***************************************************************************)
(* Connection sync of NPF state records by protobuf messages               *)
(* (src/src/npf/npf_state.c 689-809): npf_state_pack_*_pb writes a       *)
(* record into an NPFSessionStateMsg, npf_state_restore_*_pb loads a      *)
(* message into a record being created at initial load (no lock), and     *)
(* npf_state_update_*_pb applies a message to a live record (locked, via  *)
(* the set primitive).  The TCP messages carry both TCPWindowMsg structs,  *)
(* each field with its has-flag.                                           *)
(*                                                                         *)
(* Sent messages stay in the set net forever: the replication channel may *)
(* lose, duplicate or reorder them, so any message may be applied any     *)
(* number of times, in any order, or never.  PeerMsgs are messages of a   *)
(* peer of another build, in net from the start.  Every operation is one  *)
(* step: update runs under nst_lock and restore runs before the session   *)
(* is visible to any lcore.  Statistics are one row (the lcore that runs  *)
(* the sync), since per-lcore accounting is NpfState's concern.           *)
(***************************************************************************)
EXTENDS NpfStateEnums, FiniteSets

CONSTANTS
    Records,       \* npf_state_t instances
    ProtoOf,       \* proto_idx of the session each record belongs to
    WinVals,       \* values a TCP window field may take
    TcpPacketOut,  \* states the TCP validator may return on a packet
    GenPacketOut,  \* states the generic FSM may move a record to
    SkewMark,      \* window value only version-skewed peer messages carry
    PeerMsgs,      \* messages sent by peers of another build
    MaxPacks,      \* bound on npf_state_pack_*_pb calls
    MaxSessions    \* bound on npf_state_destroy calls

(* struct npf_tcp_window / TCPWindowMsg fields *)
TcpFields == {"end", "maxend", "maxwin", "wscale"}
Window == [TcpFields -> WinVals]
ZeroWin == [f \in TcpFields |-> 0]
ZeroWins == [d \in FlowDirs |-> ZeroWin]
NoHas == [d \in FlowDirs |-> {}]

(* An NPFSessionStateMsg: nss_state, n_nss_tcpwins and the windows with  *)
(* their has-flags; proto is the session the message belongs to, and src  *)
(* the packed record's state and windows (a history field, not sent).     *)
Msg == [proto : ProtoIdx, state : Nat, nwins : {0, 2},
        win : [FlowDirs -> Window], has : [FlowDirs -> SUBSET TcpFields],
        src : {<<>>} \cup {<<s>> : s \in GenStates}
              \cup (TcpStates \X [FlowDirs -> Window])]

ASSUME ProtoOf \in [Records -> ProtoIdx]
ASSUME 0 \in WinVals
ASSUME TcpPacketOut \subseteq TcpStates /\ GenPacketOut \subseteq GenStates
ASSUME PeerMsgs \subseteq Msg /\ \A m \in PeerMsgs : m.src = <<>>
ASSUME SkewMark \in WinVals \ {0}
ASSUME \A m \in PeerMsgs :
         (\E d \in FlowDirs : \E f \in m.has[d] : m.win[d][f] = SkewMark)
            => m.state > NPF_TCPS_LAST
ASSUME MaxPacks \in Nat /\ MaxSessions \in Nat

VARIABLES
    life,    \* "free" | "loading" (created for a restore) | "live"
    gen,     \* nst_gen_state
    tcp,     \* nst_tcp_state
    win,     \* nst_tcp_win[dir]
    stats,   \* stats row of the syncing lcore: <<proto, state>> -> count
    net,     \* messages sent so far
    packs,   \* number of pack calls so far
    synced,  \* history: the packed source a record was last synced from
    fault,   \* a message's absent window struct was dereferenced
    sessions \* number of sessions destroyed so far

vars == <<life, gen, tcp, win, stats, net, packs, synced, fault, sessions>>

IsTcp(r) == ProtoOf[r] = "tcp"
State(r) == IF IsTcp(r) THEN tcp[r] ELSE gen[r]
Bucket(r) == <<ProtoOf[r], State(r)>>
Buckets == {<<ProtoOf[r], s>> : r \in Records, s \in GenStates}
           \cup {<<"tcp", s>> : s \in TcpStates}

(* What pack_*_pb copies and restore/update must reproduce. *)
Snapshot(r) == IF IsTcp(r) THEN <<tcp[r], win[r]>> ELSE <<gen[r]>>

(* stats_inc/stats_dec, which skip a state past the end of its enum. *)
StatAdd(row, b, k) == IF b \in DOMAIN row THEN [row EXCEPT ![b] = @ + k] ELSE row

npf_state_set_gen(r, s) ==
    IF gen[r] # s
    THEN /\ stats' = StatAdd(StatAdd(stats, Bucket(r), -1), <<ProtoOf[r], s>>, 1)
         /\ gen' = [gen EXCEPT ![r] = s]
    ELSE UNCHANGED <<stats, gen>>

npf_state_set_tcp(r, s) ==
    IF tcp[r] # s
    THEN /\ stats' = StatAdd(StatAdd(stats, Bucket(r), -1), <<"tcp", s>>, 1)
         /\ tcp' = [tcp EXCEPT ![r] = s]
         /\ gen' = [gen EXCEPT ![r] = npf_state_tcp2gen(s)]
    ELSE UNCHANGED <<stats, tcp, gen>>

(* npf_state_init on a record embedded in a new, zero-allocated session.  *)
(* loading: the session is created by a connsync restore.                 *)
npf_state_init(r, loading) ==
    /\ life[r] = "free"
    /\ life' = [life EXCEPT ![r] = IF loading THEN "loading" ELSE "live"]
    /\ gen' = [gen EXCEPT ![r] = SESSION_STATE_NONE]
    /\ tcp' = IF IsTcp(r) THEN [tcp EXCEPT ![r] = NPF_TCPS_NONE] ELSE tcp
    /\ win' = [win EXCEPT ![r] = ZeroWins]
    /\ stats' = StatAdd(stats, <<ProtoOf[r], SESSION_STATE_NONE>>, 1)
    /\ synced' = [synced EXCEPT ![r] = <<>>]
    /\ UNCHANGED <<net, packs, fault, sessions>>

npf_state_destroy(r) ==
    /\ life[r] # "free" /\ sessions < MaxSessions
    /\ sessions' = sessions + 1
    /\ life' = [life EXCEPT ![r] = "free"]
    /\ stats' = StatAdd(stats, Bucket(r), -1)
    /\ synced' = [synced EXCEPT ![r] = <<>>]
    /\ UNCHANGED <<gen, tcp, win, net, packs, fault>>

(* npf_state_inspect_tcp: the validator updates the window of direction d *)
(* and returns state s, applied through the set primitive.                *)
npf_state_inspect_tcp(r, s, d, v) ==
    /\ life[r] = "live" /\ IsTcp(r)
    /\ win' = [win EXCEPT ![r][d] = [f \in TcpFields |-> v]]
    /\ npf_state_set_tcp(r, s)
    /\ synced' = [synced EXCEPT ![r] = <<>>]
    /\ UNCHANGED <<life, net, packs, fault, sessions>>

(* npf_state_inspect_other / _icmp: a generic FSM step to state s. *)
npf_state_inspect_gen(r, s) ==
    /\ life[r] = "live" /\ ~IsTcp(r)
    /\ npf_state_set_gen(r, s)
    /\ synced' = [synced EXCEPT ![r] = <<>>]
    /\ UNCHANGED <<life, tcp, win, net, packs, fault, sessions>>

(* Fault variant: the has-flag of tw_wscale not set. *)
npf_state_pack_tcp_pb_no_wscale(r) ==
    /\ life[r] = "live" /\ IsTcp(r) /\ packs < MaxPacks
    /\ net' = net \cup {[proto |-> "tcp", state |-> tcp[r], nwins |-> 2,
                         win |-> win[r],
                         has |-> [d \in FlowDirs |-> TcpFields \ {"wscale"}],
                         src |-> Snapshot(r)]}
    /\ packs' = packs + 1
    /\ UNCHANGED <<life, gen, tcp, win, stats, synced, fault, sessions>>

(* npf_state_pack_tcp_pb: the state and both windows, every has-flag set. *)
npf_state_pack_tcp_pb(r) ==
    /\ life[r] = "live" /\ IsTcp(r) /\ packs < MaxPacks
    /\ net' = net \cup {[proto |-> "tcp", state |-> tcp[r], nwins |-> 2,
                         win |-> win[r], has |-> [d \in FlowDirs |-> TcpFields],
                         src |-> Snapshot(r)]}
    /\ packs' = packs + 1
    /\ UNCHANGED <<life, gen, tcp, win, stats, synced, fault, sessions>>

(* npf_state_pack_gen_pb: the generic state only, no window structs. *)
npf_state_pack_gen_pb(r) ==
    /\ life[r] = "live" /\ ~IsTcp(r) /\ packs < MaxPacks
    /\ net' = net \cup {[proto |-> ProtoOf[r], state |-> gen[r], nwins |-> 0,
                         win |-> ZeroWins, has |-> NoHas, src |-> Snapshot(r)]}
    /\ packs' = packs + 1
    /\ UNCHANGED <<life, gen, tcp, win, stats, synced, fault, sessions>>

(* npf_state_restore_tcpwin_pb: copy the fields whose has-flag is set. *)
npf_state_restore_tcpwin_pb(w, m, d) ==
    [f \in TcpFields |-> IF f \in m.has[d] THEN m.win[d][f] ELSE w[f]]

(* The loop over nss_tcpwins[0..1], which n_nss_tcpwins does not bound: *)
(* with no window structs in the message it reads through a NULL array.  *)
RestoreWins(r, m) ==
    IF m.nwins < 2
    THEN fault' = TRUE /\ UNCHANGED win
    ELSE /\ win' = [win EXCEPT ![r] = [d \in FlowDirs |->
                                npf_state_restore_tcpwin_pb(@[d], m, d)]]
         /\ UNCHANGED fault

(* The caller applies a message to the record of the session it names. *)
For(r, m) == m \in net /\ m.proto = ProtoOf[r]

(* Fault variant: the version-skew check one ordinal too late. *)
npf_state_restore_gen_pb_off_by_one(r, m) ==
    /\ life[r] = "loading" /\ ~IsTcp(r) /\ For(r, m)
    /\ m.state <= SESSION_STATE_LAST + 1
    /\ gen' = [gen EXCEPT ![r] = m.state]
    /\ life' = [life EXCEPT ![r] = "live"]
    /\ synced' = [synced EXCEPT ![r] = m.src]
    /\ UNCHANGED <<tcp, win, stats, net, packs, fault, sessions>>

(* npf_state_restore_gen_pb: a known state is stored as it is; an       *)
(* unknown one is -EINVAL and the caller abandons the record.           *)
npf_state_restore_gen_pb(r, m) ==
    /\ life[r] = "loading" /\ ~IsTcp(r) /\ For(r, m)
    /\ m.state <= SESSION_STATE_LAST
    /\ gen' = [gen EXCEPT ![r] = m.state]
    /\ life' = [life EXCEPT ![r] = "live"]
    /\ synced' = [synced EXCEPT ![r] = m.src]
    /\ UNCHANGED <<tcp, win, stats, net, packs, fault, sessions>>

(* npf_state_restore_tcp_pb: state stored directly, then both windows. *)
npf_state_restore_tcp_pb(r, m) ==
    /\ life[r] = "loading" /\ IsTcp(r) /\ For(r, m)
    /\ m.state <= NPF_TCPS_LAST
    /\ tcp' = [tcp EXCEPT ![r] = m.state]
    /\ RestoreWins(r, m)
    /\ life' = [life EXCEPT ![r] = "live"]
    /\ synced' = [synced EXCEPT ![r] = m.src]
    /\ UNCHANGED <<gen, stats, net, packs, sessions>>

(* npf_state_update_gen_pb: checked, then the set primitive under lock. *)
npf_state_update_gen_pb(r, m) ==
    /\ life[r] = "live" /\ ~IsTcp(r) /\ For(r, m)
    /\ IF m.state > SESSION_STATE_LAST
       THEN UNCHANGED <<gen, stats, synced>>
       ELSE npf_state_set_gen(r, m.state) /\ synced' = [synced EXCEPT ![r] = m.src]
    /\ UNCHANGED <<life, tcp, win, net, packs, fault, sessions>>

(* Fault variant: the windows copied before the version-skew check. *)
npf_state_update_tcp_pb_windows_first(r, m) ==
    /\ life[r] = "live" /\ IsTcp(r) /\ For(r, m)
    /\ RestoreWins(r, m)
    /\ IF m.state > NPF_TCPS_LAST
       THEN UNCHANGED <<gen, tcp, stats, synced>>
       ELSE npf_state_set_tcp(r, m.state) /\ synced' = [synced EXCEPT ![r] = m.src]
    /\ UNCHANGED <<life, net, packs, sessions>>

(* npf_state_update_tcp_pb: checked, then windows and the set primitive  *)
(* under lock.                                                           *)
npf_state_update_tcp_pb(r, m) ==
    /\ life[r] = "live" /\ IsTcp(r) /\ For(r, m)
    /\ IF m.state > NPF_TCPS_LAST
       THEN UNCHANGED <<gen, tcp, win, stats, synced, fault>>
       ELSE /\ RestoreWins(r, m)
            /\ npf_state_set_tcp(r, m.state)
            /\ synced' = [synced EXCEPT ![r] = m.src]
    /\ UNCHANGED <<life, net, packs, sessions>>

Init ==
    /\ life = [r \in Records |-> "free"]
    /\ gen = [r \in Records |-> SESSION_STATE_NONE]
    /\ tcp = [r \in Records |-> NPF_TCPS_NONE]
    /\ win = [r \in Records |-> ZeroWins]
    /\ stats = [b \in Buckets |-> 0]
    /\ net = PeerMsgs
    /\ packs = 0
    /\ synced = [r \in Records |-> <<>>]
    /\ fault = FALSE
    /\ sessions = 0

Next ==
    \E r \in Records :
        \/ \E loading \in BOOLEAN : npf_state_init(r, loading)
        \/ npf_state_destroy(r)
        \/ \E s \in TcpPacketOut, d \in FlowDirs, v \in WinVals \ {SkewMark} :
               npf_state_inspect_tcp(r, s, d, v)
        \/ \E s \in GenPacketOut : npf_state_inspect_gen(r, s)
        \/ npf_state_pack_tcp_pb(r)
        \/ npf_state_pack_gen_pb(r)
        \/ \E m \in net : npf_state_restore_gen_pb(r, m)
        \/ \E m \in net : npf_state_restore_tcp_pb(r, m)
        \/ \E m \in net : npf_state_update_gen_pb(r, m)
        \/ \E m \in net : npf_state_update_tcp_pb(r, m)

Spec == Init /\ [][Next]_vars

-----------------------------------------------------------------------------
(* Properties *)

TypeOK ==
    /\ life \in [Records -> {"free", "loading", "live"}]
    /\ gen \in [Records -> GenStates]
    /\ tcp \in [Records -> TcpStates]
    /\ win \in [Records -> [FlowDirs -> Window]]
    /\ stats \in [Buckets -> Int]
    /\ net \subseteq Msg
    /\ packs \in 0 .. MaxPacks
    /\ fault \in BOOLEAN
    /\ sessions \in 0 .. MaxSessions

(* Round trip (npf_state_pack_tcp_pb / _gen_pb, then restore_*_pb or     *)
(* update_*_pb on another session's record): a record last synced from *)
(* a packed message holds exactly the state and the four window fields  *)
(* of both directions that the packed record had when it was packed,    *)
(* however the message was delayed, duplicated or reordered and        *)
(* whatever the record held before.                                     *)
RoundTrip ==
    \A r \in Records : synced[r] # <<>> => Snapshot(r) = synced[r]

(* Version-skew defence of restore_*_pb and update_*_pb: a message with *)
(* a state ordinal this build does not know changes nothing, so no      *)
(* record ever holds an unknown state or a window value that only such  *)
(* messages carry.                                                      *)
VersionSkewNoChange ==
    \A r \in Records :
        /\ gen[r] \in GenStates
        /\ tcp[r] \in TcpStates
        /\ \A d \in FlowDirs, f \in TcpFields : win[r][d][f] # SkewMark

(* The set primitive's guarantee (spec section 4.2a), which restore_*_pb *)
(* bypasses: every created TCP record has nst_gen_state =               *)
(* npf_state_tcp2gen(nst_tcp_state), and each counter equals the number *)
(* of created records in that state, as stats_inc/stats_dec in init,     *)
(* destroy and npf_state_set_gen/_tcp keep them.                         *)
StateConsistent ==
    /\ \A r \in Records :
           life[r] # "free" /\ IsTcp(r) => gen[r] = npf_state_tcp2gen(tcp[r])
    /\ \A b \in Buckets :
           stats[b] = Cardinality({r \in Records : life[r] # "free" /\ Bucket(r) = b})

====
