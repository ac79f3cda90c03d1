------------------------------ MODULE NpfState ------------------------------
(***************************************************************************)
(* The NPF session state engine of src/src/npf/npf_state.c.                *)
(*                                                                         *)
(* Several lcores (Cores) run the state engine on a small set of session  *)
(* state records (Records).  Each operation that takes the record's       *)
(* spinlock (nst_lock) is one atomic step: the lock serialises the        *)
(* read-modify-write of the state fields.  The per-lcore statistics table *)
(* (stats[dp_lcore_id()]) is updated inside that step by the core that    *)
(* runs it.  The session-layer notification that follows a state change  *)
(* runs after the unlock: an unlocked read of the record's state, then a  *)
(* write of it into the session, two steps between which other cores may *)
(* change the record and notify.  The diagnostics fold of                 *)
(* npf_state_stats_json runs on another thread without any lock and is a *)
(* read step and a write step per counter, racing the owning lcores.      *)
(***************************************************************************)
EXTENDS NpfStateEnums, FiniteSets, Sequences, Functions, SequencesExt

CONSTANTS
    Cores,        \* lcores that run the engine (dp_lcore_id() values)
    Records,      \* npf_state_t instances, one per session
    Protos,       \* proto_idx values sessions are created with
    GenSyncIn,    \* generic state ordinals a protobuf sync message may carry
    TcpSyncIn,    \* TCP state ordinals a protobuf sync message may carry
    GenPackIn,    \* generic states a binary (npf_pack) record may carry
    TcpPackIn,    \* TCP states a binary (npf_pack) record may carry
    TcpValidatorOut, \* states the npf_tcp.c validator may return
    MaxReports,   \* bound on npf_state_stats_json invocations
    MaxSessions   \* bound on successful npf_state_init calls

(* No notification owed: npf_session_*_state_change gets (old, new); the  *)
(* new state is kept, the old one only feeds logging.                    *)
NoNotify == [rec |-> "none", new |-> 0, read |-> <<>>]

ASSUME Protos \subseteq ProtoIdx
ASSUME GenSyncIn \subseteq 0 .. SESSION_STATE_LAST + 1
ASSUME TcpSyncIn \subseteq 0 .. NPF_TCPS_LAST + 1
ASSUME GenPackIn \subseteq GenStates /\ TcpPackIn \subseteq TcpStates
ASSUME MaxReports \in Nat
ASSUME MaxSessions \in Nat
ASSUME TcpValidatorOut \subseteq TcpStates \ {NPF_TCPS_NONE}

VARIABLES
    proto,      \* proto_idx the record's session was created with
    life,       \* "free" (no session uses the record) | "live"
    gen,        \* nst_gen_state
    tcp,        \* nst_tcp_state
    stats,      \* stats[core][<<proto, state>>]: ss_ct and ss_tcp_ct
    icmpStrict, \* npf_state_icmp_strict
    pending,    \* notification a core owes the session layer after unlock
            \* return code of the last operation of each core
    sessView,   \* state last pushed to the dataplane session
    reportQ,    \* counters npf_state_stats_json still has to fold
    reportTmp,  \* value the fold has read and not yet written
    reports,    \* number of npf_state_stats_json calls so far
    opener,     \* history: packet that moved an ICMP record out of NONE
    sessions    \* number of successful npf_state_init calls so far

vars == <<proto, life, gen, tcp, stats, icmpStrict, pending, sessView,
          reportQ, reportTmp, reports, opener, sessions>>

IsTcp(r) == proto[r] = "tcp"

(* The counter a record occupies: ss_tcp_ct for TCP, ss_ct otherwise. *)
Bucket(r) == IF IsTcp(r) THEN <<"tcp", tcp[r]>> ELSE <<proto[r], gen[r]>>

Buckets == ({"tcp"} \X TcpStates) \cup ((ProtoIdx \ {"tcp"}) \X GenStates)

(* The state the session layer is told about: TCP or generic. *)
CurState(r) == IF IsTcp(r) THEN tcp[r] ELSE gen[r]

(***************************************************************************)
(* npf_generic_fsm[][]: a static table, so every entry the initialiser     *)
(* does not name is zero, i.e. SESSION_STATE_NONE.                         *)
(***************************************************************************)
GenFsmEntries ==
    (<<SESSION_STATE_NONE, NPF_FLOW_FORW>> :> SESSION_STATE_NEW)
    @@ (<<SESSION_STATE_NEW, NPF_FLOW_FORW>> :> SESSION_STATE_NEW)
    @@ (<<SESSION_STATE_NEW, NPF_FLOW_BACK>> :> SESSION_STATE_ESTABLISHED)
    @@ (<<SESSION_STATE_ESTABLISHED, NPF_FLOW_FORW>> :> SESSION_STATE_ESTABLISHED)
    @@ (<<SESSION_STATE_ESTABLISHED, NPF_FLOW_BACK>> :> SESSION_STATE_ESTABLISHED)

npf_generic_fsm(s, d) ==
    IF <<s, d>> \in DOMAIN GenFsmEntries THEN GenFsmEntries[<<s, d>>]
                                         ELSE SESSION_STATE_NONE

(***************************************************************************)
(* stats_dec(old) and stats_inc(new) on the running core's row; both skip *)
(* a state past the last of its enum.                                      *)
(***************************************************************************)
StatAdd(row, b, k) == IF b \in DOMAIN row THEN [row EXCEPT ![b] = @ + k] ELSE row

MoveStat(c, from, to) ==
    stats' = [stats EXCEPT ![c] = StatAdd(StatAdd(@, from, -1), to, 1)]

(* After the unlock, a changed state is reported to the session layer. *)
Owe(c, r, new, changed) ==
    pending' = IF changed THEN [pending EXCEPT ![c] = [rec |-> r, new |-> new, read |-> <<>>]]
                          ELSE pending

(* Fault variant: the generic state written without stats bookkeeping. *)
npf_state_set_gen_no_stats(c, r, s) ==
    IF gen[r] # s
    THEN /\ gen' = [gen EXCEPT ![r] = s]
         /\ UNCHANGED stats
    ELSE UNCHANGED <<stats, gen>>

(***************************************************************************)
(* npf_state_set_gen: the only writer of nst_gen_state for non-TCP         *)
(* records; a no-op when the state is unchanged.                           *)
(***************************************************************************)
npf_state_set_gen(c, r, s) ==
    IF gen[r] # s
    THEN /\ MoveStat(c, <<proto[r], gen[r]>>, <<proto[r], s>>)
         /\ gen' = [gen EXCEPT ![r] = s]
    ELSE UNCHANGED <<stats, gen>>

(* npf_state_set_tcp: also recomputes nst_gen_state from the TCP state. *)
npf_state_set_tcp(c, r, s) ==
    IF tcp[r] # s
    THEN /\ MoveStat(c, <<"tcp", tcp[r]>>, <<"tcp", s>>)
         /\ tcp' = [tcp EXCEPT ![r] = s]
         /\ gen' = [gen EXCEPT ![r] = npf_state_tcp2gen(s)]
    ELSE UNCHANGED <<stats, tcp, gen>>

Idle(c) == pending[c] = NoNotify
Live(r) == life[r] = "live"

CountVars == <<proto, reportQ, reportTmp, reports, sessions>>

(***************************************************************************)
(* npf_state_init: takes a reference on the VRF's timeout struct; fails,   *)
(* changing nothing, when the VRF has none (found = FALSE).  On success    *)
(* the record starts in NONE and the NONE counter of this core goes up.   *)
(* The new session's own state starts at 0 (NONE) too.                    *)
(***************************************************************************)
npf_state_init(c, r, p, found) ==
    /\ life[r] = "free"
    /\ Idle(c)
    /\ IF found
       THEN /\ sessions < MaxSessions
            /\ sessions' = sessions + 1
            /\ proto' = [proto EXCEPT ![r] = p]
            /\ life' = [life EXCEPT ![r] = "live"]
            /\ gen' = [gen EXCEPT ![r] = SESSION_STATE_NONE]
            /\ tcp' = IF p = "tcp" THEN [tcp EXCEPT ![r] = NPF_TCPS_NONE] ELSE tcp
            /\ stats' = [stats EXCEPT ![c][<<p, 0>>] = @ + 1]
            /\ sessView' = [sessView EXCEPT ![r] = 0]
            /\ opener' = [opener EXCEPT ![r] = <<>>]
       ELSE UNCHANGED <<proto, life, gen, tcp, stats, sessView, opener, sessions>>
    /\ UNCHANGED <<icmpStrict, pending, reportQ, reportTmp, reports>>

(***************************************************************************)
(* npf_state_destroy, from npf_session_destroy: runs after the RCU grace   *)
(* period, so no core is still working on the record.  Decrements the     *)
(* counter of the current state on the running core and drops the        *)
(* timeout reference (the cmpxchg is not modelled: one caller).  The     *)
(* record's memory then serves a later session.                          *)
(***************************************************************************)
(* Fault variant: a TCP record's count taken from nst_gen_state. *)
npf_state_destroy_gen_bucket(c, r) ==
    /\ Live(r)
    /\ Idle(c)
    /\ \A o \in Cores : pending[o].rec # r
    /\ life' = [life EXCEPT ![r] = "free"]
    /\ stats' = [stats EXCEPT ![c] = StatAdd(@, <<proto[r], gen[r]>>, -1)]
    /\ UNCHANGED <<gen, tcp, icmpStrict, pending, sessView, opener>>
    /\ UNCHANGED CountVars

npf_state_destroy(c, r) ==
    /\ Live(r)
    /\ Idle(c)
    /\ \A o \in Cores : pending[o].rec # r
    /\ life' = [life EXCEPT ![r] = "free"]
    /\ stats' = [stats EXCEPT ![c] = StatAdd(@, Bucket(r), -1)]
    /\ UNCHANGED <<gen, tcp, icmpStrict, pending, sessView, opener>>
    /\ UNCHANGED CountVars

(* npf_state_inspect_other: UDP and other protocols. *)
npf_state_inspect_other(c, r, d) ==
    LET new == npf_generic_fsm(gen[r], d) IN
    /\ Live(r) /\ Idle(c)
    /\ proto[r] \in {"udp", "other"}
    /\ npf_state_set_gen(c, r, new)
    /\ Owe(c, r, new, gen[r] # new)
    /\ UNCHANGED <<life, tcp, icmpStrict, sessView, opener>>
    /\ UNCHANGED CountVars

(***************************************************************************)
(* npf_state_inspect_tcp: the sequence/window validator npf_state_tcp      *)
(* (npf_tcp.c, not in this file) returns a new TCP state or fails; only   *)
(* its contract is modelled: any state but NONE, or a failure that leaves *)
(* the record untouched.                                                   *)
(***************************************************************************)
TcpValidatorFail == -1   \* any rc < 0 of the validator

npf_state_tcp_result == TcpValidatorOut \cup {TcpValidatorFail}

npf_state_inspect_tcp(c, r, d, res) ==
    /\ Live(r) /\ Idle(c)
    /\ IsTcp(r)
    /\ IF res = TcpValidatorFail
       THEN UNCHANGED <<stats, tcp, gen, pending>>
       ELSE /\ npf_state_set_tcp(c, r, res)
            /\ Owe(c, r, res, tcp[r] # res)
    /\ UNCHANGED <<life, icmpStrict, sessView, opener>>
    /\ UNCHANGED CountVars

(***************************************************************************)
(* npf_state_inspect_icmp: a new ping session may only be opened by an     *)
(* echo request in the forward direction; with 'strict' set, forward      *)
(* packets must be requests and backward ones must not be.                 *)
(***************************************************************************)
(* Fault variant: the guard only when strict is on. *)
IcmpEchoMismatchStrictOnly(r, d, isReq) ==
    /\ icmpStrict
    /\ (d = NPF_FLOW_FORW) # isReq

IcmpEchoMismatch(r, d, isReq) ==
    /\ icmpStrict \/ gen[r] = SESSION_STATE_NONE
    /\ (d = NPF_FLOW_FORW) # isReq

npf_state_inspect_icmp(c, r, d, isReq) ==
    LET new == npf_generic_fsm(gen[r], d) IN
    /\ Live(r) /\ Idle(c)
    /\ proto[r] = "icmp"
    /\ IF IcmpEchoMismatch(r, d, isReq)
       THEN UNCHANGED <<stats, gen, pending, opener>>
       ELSE /\ npf_state_set_gen(c, r, new)
            /\ Owe(c, r, new, gen[r] # new)
            /\ opener' = IF gen[r] = SESSION_STATE_NONE /\ new # SESSION_STATE_NONE
                         THEN [opener EXCEPT ![r] = <<d, isReq>>]
                         ELSE opener
    /\ UNCHANGED <<life, tcp, icmpStrict, sessView>>
    /\ UNCHANGED CountVars

(***************************************************************************)
(* npf_state_set_gen_closed / npf_state_set_tcp_closed: mark the session   *)
(* CLOSED while it goes through garbage collection.  With lock = false    *)
(* the caller already holds nst_lock, so either way the update is one     *)
(* atomic step.                                                            *)
(***************************************************************************)
npf_state_set_gen_closed(c, r) ==
    /\ Live(r) /\ Idle(c)
    /\ ~IsTcp(r)
    /\ npf_state_set_gen(c, r, SESSION_STATE_CLOSED)
    /\ Owe(c, r, SESSION_STATE_CLOSED, gen[r] # SESSION_STATE_CLOSED)
    /\ UNCHANGED <<life, tcp, icmpStrict, sessView, opener>>
    /\ UNCHANGED CountVars

npf_state_set_tcp_closed(c, r) ==
    /\ Live(r) /\ Idle(c)
    /\ IsTcp(r)
    /\ npf_state_set_tcp(c, r, NPF_TCPS_CLOSED)
    /\ Owe(c, r, NPF_TCPS_CLOSED, tcp[r] # NPF_TCPS_CLOSED)
    /\ UNCHANGED <<life, icmpStrict, sessView, opener>>
    /\ UNCHANGED CountVars

(***************************************************************************)
(* Connection-state sync into a live record.  npf_state_pack_update_gen/   *)
(* _tcp take the trusted binary record and apply its state as is;          *)
(* npf_state_update_gen_pb/_tcp first reject an ordinal this binary does  *)
(* not know (the binary record comes from a peer of the same build, so   *)
(* GenPackIn/TcpPackIn hold in-range states only).  All four apply the state under  *)
(* nst_lock through the set *)
(* primitive and hand state_changed to the caller, which updates the      *)
(* session as the packet path does.  TCP windows are modelled in          *)
(* NpfStateSync.                                                           *)
(***************************************************************************)
SyncGen(c, r, s) ==
    /\ npf_state_set_gen(c, r, s)
    /\ Owe(c, r, s, gen[r] # s)

SyncTcp(c, r, s) ==
    /\ npf_state_set_tcp(c, r, s)
    /\ Owe(c, r, s, tcp[r] # s)

Reject ==
    UNCHANGED <<stats, gen, tcp, pending>>

npf_state_pack_update_gen(c, r, s) ==
    /\ Live(r) /\ Idle(c) /\ ~IsTcp(r)
    /\ SyncGen(c, r, s)
    /\ UNCHANGED <<life, tcp, icmpStrict, sessView, opener>>
    /\ UNCHANGED CountVars

npf_state_pack_update_tcp(c, r, s) ==
    /\ Live(r) /\ Idle(c) /\ IsTcp(r)
    /\ SyncTcp(c, r, s)
    /\ UNCHANGED <<life, icmpStrict, sessView, opener>>
    /\ UNCHANGED CountVars

(* Fault variant: the version-skew check lets SESSION_STATE_LAST + 1 in. *)
npf_state_update_gen_pb_off_by_one(c, r, s) ==
    /\ Live(r) /\ Idle(c) /\ ~IsTcp(r)
    /\ IF s > SESSION_STATE_LAST + 1 THEN Reject ELSE SyncGen(c, r, s)
    /\ UNCHANGED <<life, tcp, icmpStrict, sessView, opener>>
    /\ UNCHANGED CountVars

npf_state_update_gen_pb(c, r, s) ==
    /\ Live(r) /\ Idle(c) /\ ~IsTcp(r)
    /\ IF s > SESSION_STATE_LAST THEN Reject ELSE SyncGen(c, r, s)
    /\ UNCHANGED <<life, tcp, icmpStrict, sessView, opener>>
    /\ UNCHANGED CountVars

npf_state_update_tcp_pb(c, r, s) ==
    /\ Live(r) /\ Idle(c) /\ IsTcp(r)
    /\ IF s > NPF_TCPS_LAST THEN Reject ELSE SyncTcp(c, r, s)
    /\ UNCHANGED <<life, icmpStrict, sessView, opener>>
    /\ UNCHANGED CountVars

(***************************************************************************)
(* npf_session_gen_state_change / npf_session_tcp_state_change, after the  *)
(* unlock: npf_state_update_gen_session / npf_state_update_tcp_session     *)
(* read the record's state afresh, without the lock, and set the          *)
(* dataplane session's state and timeout from it.                          *)
(***************************************************************************)
(* The read half, without the lock: the record's current state (and the   *)
(* timeout looked up for it) is taken into locals.                       *)
npf_state_update_session_read(c) ==
    LET r == pending[c].rec IN
    /\ ~Idle(c) /\ pending[c].read = <<>>
    /\ pending' = [pending EXCEPT ![c].read = <<CurState(r)>>]
    /\ UNCHANGED <<life, gen, tcp, stats, icmpStrict, sessView, opener>>
    /\ UNCHANGED CountVars

(* The write half: session_set_protocol_state_timeout stores the values  *)
(* read, which another lcore may have changed and pushed meanwhile.      *)
npf_state_update_session_write(c) ==
    LET r == pending[c].rec IN
    /\ pending[c].read # <<>>
    /\ sessView' = [sessView EXCEPT ![r] = pending[c].read[1]]
    /\ pending' = [pending EXCEPT ![c] = NoNotify]
    /\ UNCHANGED <<life, gen, tcp, stats, icmpStrict, opener>>
    /\ UNCHANGED CountVars

npf_state_update_session(c) ==
    npf_state_update_session_read(c) \/ npf_state_update_session_write(c)

(* npf_state_set_icmp_strict: configuration toggle. *)
npf_state_set_icmp_strict(v) ==
    /\ icmpStrict # v
    /\ icmpStrict' = v
    /\ UNCHANGED <<life, gen, tcp, stats, pending, sessView, opener>>
    /\ UNCHANGED CountVars

(***************************************************************************)
(* npf_state_stats_json, "temporary fixup": for every lcore, first the TCP *)
(* counters then each protocol's, CLOSED += NONE, written into the live   *)
(* table from the reporting thread with no lock.  Each += is a load of    *)
(* both counters and a later store, so an lcore's own update of CLOSED in *)
(* between is overwritten.  Counters no session uses (the TCP row of      *)
(* ss_ct, protocols outside Protos) stay 0, so their fold (0 += 0) is     *)
(* left out.  The JSON output itself is a pure read.                      *)
(***************************************************************************)
FoldOrder ==
    LET cs == SetToSeq(Cores)
        tp == SetToSeq(Protos \cap {"tcp"})
        gp == SetToSeq(Protos \ {"tcp"})
    IN  FlattenSeq([i \in 1 .. Len(cs) |-> [j \in 1 .. Len(tp) |-> <<cs[i], tp[j]>>]])
        \o FlattenSeq([i \in 1 .. Len(cs) |-> [j \in 1 .. Len(gp) |-> <<cs[i], gp[j]>>]])

ClosedOf(p) == IF p = "tcp" THEN NPF_TCPS_CLOSED ELSE SESSION_STATE_CLOSED

npf_state_stats_json ==
    /\ reportQ = <<>>
    /\ reports < MaxReports
    /\ reportQ' = FoldOrder
    /\ reports' = reports + 1
    /\ UNCHANGED <<proto, life, gen, tcp, stats, icmpStrict, pending, sessView,
                   reportTmp, opener, sessions>>

StatsFoldLoad ==
    LET c == reportQ[1][1]
        p == reportQ[1][2]
    IN
    /\ reportQ # <<>>
    /\ reportTmp = <<>>
    /\ reportTmp' = <<stats[c][<<p, ClosedOf(p)>>] + stats[c][<<p, 0>>]>>
    /\ UNCHANGED <<proto, life, gen, tcp, stats, icmpStrict, pending, sessView,
                   reportQ, reports, opener, sessions>>

(* Fault variant: the sum is stored into the NONE counter. *)
StatsFoldStoreSwapped ==
    LET c == reportQ[1][1]
        p == reportQ[1][2]
    IN
    /\ reportTmp # <<>>
    /\ stats' = [stats EXCEPT ![c][<<p, 0>>] = reportTmp[1]]
    /\ reportTmp' = <<>>
    /\ reportQ' = Tail(reportQ)
    /\ UNCHANGED <<proto, life, gen, tcp, icmpStrict, pending, sessView,
                   reports, opener, sessions>>

StatsFoldStore ==
    LET c == reportQ[1][1]
        p == reportQ[1][2]
    IN
    /\ reportTmp # <<>>
    /\ stats' = [stats EXCEPT ![c][<<p, ClosedOf(p)>>] = reportTmp[1]]
    /\ reportTmp' = <<>>
    /\ reportQ' = Tail(reportQ)
    /\ UNCHANGED <<proto, life, gen, tcp, icmpStrict, pending, sessView,
                   reports, opener, sessions>>

-----------------------------------------------------------------------------
Init ==
    /\ proto = [r \in Records |-> CHOOSE p \in Protos : TRUE]
    /\ life = [r \in Records |-> "free"]
    /\ gen = [r \in Records |-> SESSION_STATE_NONE]
    /\ tcp = [r \in Records |-> NPF_TCPS_NONE]
    /\ stats = [c \in Cores |-> [b \in Buckets |-> 0]]   \* zmalloc_aligned
    /\ icmpStrict = FALSE
    /\ pending = [c \in Cores |-> NoNotify]
    /\ sessView = [r \in Records |-> 0]
    /\ reportQ = <<>>
    /\ reportTmp = <<>>
    /\ reports = 0
    /\ opener = [r \in Records |-> <<>>]
    /\ sessions = 0

(* npf_state_inspect dispatches on proto_idx; forw selects the direction. *)
npf_state_inspect(c, r, d) ==
    \/ npf_state_inspect_other(c, r, d)
    \/ \E res \in npf_state_tcp_result : npf_state_inspect_tcp(c, r, d, res)
    \/ \E isReq \in BOOLEAN : npf_state_inspect_icmp(c, r, d, isReq)

(* The lcores' operations and the configuration toggle. *)
Engine ==
    \/ \E c \in Cores, r \in Records :
          \/ \E p \in Protos, found \in BOOLEAN : npf_state_init(c, r, p, found)
          \/ npf_state_destroy(c, r)
          \/ \E d \in FlowDirs : npf_state_inspect(c, r, d)
          \/ npf_state_set_gen_closed(c, r)
          \/ npf_state_set_tcp_closed(c, r)
          \/ \E s \in GenPackIn : npf_state_pack_update_gen(c, r, s)
          \/ \E s \in TcpPackIn : npf_state_pack_update_tcp(c, r, s)
          \/ \E s \in GenSyncIn : npf_state_update_gen_pb(c, r, s)
          \/ \E s \in TcpSyncIn : npf_state_update_tcp_pb(c, r, s)
    \/ \E c \in Cores : npf_state_update_session(c)
    \/ \E v \in BOOLEAN : npf_state_set_icmp_strict(v)

(* ... with npf_state_stats_json called from the diagnostics thread. *)
Next ==
    \/ Engine
    \/ npf_state_stats_json
    \/ StatsFoldLoad
    \/ StatsFoldStore

EngineSpec == Init /\ [][Engine]_vars

Spec == Init /\ [][Next]_vars

-----------------------------------------------------------------------------
TypeOK ==
    /\ proto \in [Records -> Protos]
    /\ life \in [Records -> {"free", "live"}]
    /\ gen \in [Records -> GenStates]
    /\ tcp \in [Records -> TcpStates]
    /\ stats \in [Cores -> [Buckets -> Int]]
    /\ icmpStrict \in BOOLEAN
    /\ \A c \in Cores : pending[c] = NoNotify \/ pending[c].rec \in Records
    /\ reportQ \in Seq(Cores \X ProtoIdx)
    /\ reportTmp \in Seq(Int) /\ Len(reportTmp) <= 1
    /\ reports \in 0 .. MaxReports

(* Global occupancy of a bucket, summed over all lcores as the reader does. *)
GlobalCount(b) == MapThenSumSet(LAMBDA c : stats[c][b], Cores)

LiveIn(b) == Quantify(Records, LAMBDA r : Live(r) /\ Bucket(r) = b)

(* Counters of protocols no session is created with stay 0. *)
UsedBuckets == {b \in Buckets : b[1] \in Protos}

(* Stats conservation (spec section 8), over all lcores: each bucket's sum *)
(* is the number of live records in that state, whatever core ran each    *)
(* init, transition, sync and destroy of the records.                     *)
StatsConserved == \A b \in UsedBuckets : GlobalCount(b) = LiveIn(b)

(* Session view converges: "Update a dataplane session ... with the       *)
(* current NPF protocol state" -- once every notification owed after an  *)
(* unlock for a record has run, the dataplane session shows the record's *)
(* current state, even when two lcores changed the state and notified    *)
(* in the opposite order.                                                 *)
SessionViewConverges ==
    \A r \in Records :
        (Live(r) /\ \A c \in Cores : pending[c].rec # r) => sessView[r] = CurState(r)

(* A ping session is only ever opened (moved out of NONE by a packet) by  *)
(* a forward-direction echo request, whatever the strict setting was.     *)
IcmpOpenedByRequest ==
    \A r \in Records : proto[r] = "icmp" /\ Live(r) =>
        opener[r] \in {<<>>, <<NPF_FLOW_FORW, TRUE>>}
====
