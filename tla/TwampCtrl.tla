------------------------------- MODULE TwampCtrl -------------------------------
(***************************************************************************)
(* TWAMP test-session control of src/src/twamp_ctrl.c.  The TWAMP daemon  *)
(* sends TWAMPCmd protobufs (initialise, create, delete, counters) that   *)
(* tw_protobuf_handler runs on the console thread.  Each handler is one  *)
(* step: the session list tw_session_list_head is written only by this   *)
(* thread (readers are RCU).  The UDP destination port of a session must *)
(* be registered with the UDP dispatcher on the main thread, so the      *)
(* console thread sends (add, af, port) over the inproc zsock pair       *)
(* twamp_sock_console -> twamp_sock_main, a reliable FIFO channel, and    *)
(* the main thread's event loop applies each message in                  *)
(* tw_event_register_udp_port.  twamp_shutdown runs on the main thread.  *)
(*                                                                         *)
(* A session is abstracted to its lookup key: address family, local port *)
(* and VRF (rport, laddr and raddr only take part in the equality of      *)
(* tw_session_find).  A response is its status, the errno name of rc.    *)
(***************************************************************************)
EXTENDS Integers, Sequences, SequencesExt, FiniteSets

CONSTANTS
    AFs,         \* address families of session addresses (AF_INET, AF_INET6)
    Ports,       \* local (reflector) UDP ports
    Vrfs,        \* VRFs a key may name
    Modes,       \* TWAMPSessionCreate modes a daemon may send
    MaxCreates   \* bound on create commands

(* TWAMPSESSION_CREATE__MODE__*; any other value is an unknown mode. *)
MODE_OPEN == "open"
MODE_AUTHENTICATED == "authenticated"
MODE_ENCRYPTED == "encrypted"

(* Failures of tw_pb_session_key_get: an address that does not unpack    *)
(* (-EINVAL), laddr and raddr of different families (-EPROTO), a VRF     *)
(* name tw_get_vrf does not know (-ENOENT).                               *)
KeyErrors == {"EINVAL", "EPROTO", "ENOENT"}
BadKey == [err : KeyErrors]

Statuses == {"OK", "FAIL", "EEXIST", "ENOMEM", "ENOTSUP"} \cup KeyErrors

Key == [af : AFs, lport : Ports, vrf : Vrfs]

(* A message on the zsock pair, packed as "112": add, af, port. *)
PortMsg == [add : BOOLEAN, af : AFs, port : Ports]

VARIABLES
    sessions,   \* the keys of the entries on tw_session_list_head
    chan,       \* messages sent by twamp_sock_console, not yet received
    udp,        \* <<af, port>> pairs the UDP dispatcher sends to TWAMP
    resp,       \* the last TWAMPCmdResponse: the request it answers, its status
    crashed,    \* a list operation dereferenced the NULL links of an entry
    creates,    \* create commands so far
    down,       \* twamp_shutdown has run
    lost        \* history: pairs a message of which zsock_bsend failed to send

vars == <<sessions, chan, udp, resp, crashed, creates, down, lost>>

(* tw_session_lport_exists: some session on the list uses (af, lport). *)
tw_session_lport_exists(S, af, lport) ==
    \E s \in S : s.af = af /\ s.lport = lport

(* The pairs the list needs registered. *)
SessionPorts == {<<s.af, s.lport>> : s \in sessions}

NoSend == UNCHANGED <<chan, lost>>

(* Fault variant: af and port swapped against the "112" picture. *)
tw_session_udp_port_swapped(add, af, port) ==
    chan' = Append(chan, [add |-> add, af |-> port, port |-> af]) /\ UNCHANGED lost

(* tw_session_udp_port from the console thread: the request is sent to  *)
(* the main thread over the pair socket; when zsock_bsend fails the      *)
(* error is logged and the request is gone.                              *)
tw_session_udp_port(add, af, port) ==
    \/ chan' = Append(chan, [add |-> add, af |-> af, port |-> port]) /\ UNCHANGED lost
    \/ lost' = lost \cup {<<af, port>>} /\ UNCHANGED chan

(* Fault variant: the port check made before the entry is unlinked. *)
tw_session_delete_check_first(k) ==
    /\ sessions' = sessions \ {k}
    /\ IF ~tw_session_lport_exists(sessions, k.af, k.lport)
       THEN tw_session_udp_port(FALSE, k.af, k.lport)
       ELSE NoSend

(* tw_session_delete of a listed entry: cds_list_del, then the port is  *)
(* unregistered if no remaining session uses it; call_rcu frees it.      *)
tw_session_delete(k) ==
    /\ sessions' = sessions \ {k}
    /\ IF ~tw_session_lport_exists(sessions \ {k}, k.af, k.lport)
       THEN tw_session_udp_port(FALSE, k.af, k.lport)
       ELSE NoSend

(* Fault variant: the port test made after cds_list_add_rcu. *)
RegisterIfFirst_after_add(k) ==
    IF ~tw_session_lport_exists(sessions \cup {k}, k.af, k.lport)
    THEN tw_session_udp_port(TRUE, k.af, k.lport)
    ELSE NoSend

(* Create: port_registered is tested before the entry is listed; the    *)
(* first session of a pair asks for the port.                           *)
RegisterIfFirst(k) ==
    IF ~tw_session_lport_exists(sessions, k.af, k.lport)
    THEN tw_session_udp_port(TRUE, k.af, k.lport)
    ELSE NoSend

(* Every command handler is guarded by the dataplane being up and alive. *)
Running == ~down /\ ~crashed

Requests == {"none", "init", "create", "delete", "counters", "unknown"}

(* tw_protobuf_handler packs the status rc of the request it ran. *)
Respond(req, st) == resp' = [req |-> req, status |-> st]

(* tw_session_create returns NULL: calloc fails (an address family    *)
(* other than AF_INET/AF_INET6 would too), and the create is -ENOMEM.    *)
tw_session_create_fails ==
    /\ Respond("create", "ENOMEM")
    /\ UNCHANGED <<sessions, chan, lost, crashed>>

(* tw_protobuf_handler -> tw_pb_session_create with key k and mode md.  *)
tw_pb_session_create(k, md) ==
    /\ Running /\ creates < MaxCreates
    /\ creates' = creates + 1
    /\ UNCHANGED <<udp, down>>
    /\ \/ /\ k \in BadKey
          /\ Respond("create", k.err)
          /\ UNCHANGED <<sessions, chan, lost, crashed>>
       \/ /\ k \in sessions
          /\ Respond("create", "EEXIST")
          /\ UNCHANGED <<sessions, chan, lost, crashed>>
       \/ /\ k \in Key /\ k \notin sessions
          /\ \/ tw_session_create_fails
             \/ \* unknown mode: tw_session_delete on an entry never added;
                \* cds_list_del follows its zeroed links
                /\ md \notin {MODE_OPEN, MODE_AUTHENTICATED, MODE_ENCRYPTED}
                /\ crashed' = TRUE
                /\ UNCHANGED <<sessions, chan, lost, resp>>
             \/ \* tw_pb_session_create_crypto is -ENOTSUP; entry freed
                /\ md \in {MODE_AUTHENTICATED, MODE_ENCRYPTED}
                /\ Respond("create", "ENOTSUP")
                /\ UNCHANGED <<sessions, chan, lost, crashed>>
             \/ /\ md = MODE_OPEN
                /\ sessions' = sessions \cup {k}
                /\ RegisterIfFirst(k)
                /\ Respond("create", "OK")
                /\ UNCHANGED crashed

(* tw_protobuf_handler -> tw_pb_session_delete. *)
tw_pb_session_delete(k) ==
    /\ Running
    /\ \/ /\ k \in BadKey
          /\ Respond("delete", "FAIL")
          /\ UNCHANGED <<sessions, chan, lost>>
       \/ /\ k \in Key /\ k \notin sessions
          /\ Respond("delete", "OK")
          /\ UNCHANGED <<sessions, chan, lost>>
       \/ /\ k \in sessions
          /\ tw_session_delete(k)
          /\ Respond("delete", "OK")
    /\ UNCHANGED <<udp, crashed, creates, down>>

(* tw_protobuf_handler -> tw_pb_session_counters: only the status is    *)
(* state; the counters are read from the entry.                         *)
tw_pb_session_counters(k) ==
    /\ Running
    /\ Respond("counters", IF k \in sessions THEN "OK" ELSE "FAIL")
    /\ UNCHANGED <<sessions, chan, udp, crashed, creates, down, lost>>

(* Unregister requests for the pairs of the deleted sessions R that no  *)
(* remaining session uses, one per pair, as the deletes of the loop of  *)
(* tw_session_clean_vrf / _clean_all emit them.                         *)
Released(R) ==
    {<<s.af, s.lport>> : s \in R} \ {<<s.af, s.lport>> : s \in sessions \ R}

(* tw_protobuf_handler -> tw_pb_init: tw_session_clean_vrf of VRF v, or *)
(* -ENOENT for a VRF name tw_get_vrf does not find.                     *)
tw_pb_init(v) ==
    /\ Running
    /\ \/ /\ v = "ENOENT"
          /\ Respond("init", "ENOENT")
          /\ UNCHANGED <<sessions, chan, lost>>
       \/ /\ v \in Vrfs
          /\ LET R == {s \in sessions : s.vrf = v} IN
             /\ sessions' = sessions \ R
             /\ \E F \in SUBSET Released(R) :    \* the sends that fail
                   /\ chan' = chan \o SetToSeq({[add |-> FALSE, af |-> p[1],
                                    port |-> p[2]] : p \in Released(R) \ F})
                   /\ lost' = lost \cup F
          /\ Respond("init", "OK")
    /\ UNCHANGED <<udp, crashed, creates, down>>

(* tw_protobuf_handler with an unknown mtype_case: status -1. *)
tw_protobuf_handler_unknown ==
    /\ Running
    /\ Respond("unknown", "FAIL")
    /\ UNCHANGED <<sessions, chan, udp, crashed, creates, down, lost>>

(* tw_main_register_udp_port: udp_handler_register fails (logged only)  *)
(* when the pair already has a handler; unregister removes it.           *)
tw_main_register_udp_port(u, m) ==
    IF m.add THEN u \cup {<<m.af, m.port>>} ELSE u \ {<<m.af, m.port>>}

(* Fault variant: twamp_init registers the wrong end of the pair with  *)
(* the event loop, so the main thread is never woken for a message.      *)
tw_event_register_udp_port_never_polled ==
    /\ FALSE
    /\ UNCHANGED vars

(* Main thread: tw_event_register_udp_port receives the oldest message. *)
tw_event_register_udp_port ==
    /\ Running /\ chan # <<>>
    /\ udp' = tw_main_register_udp_port(udp, Head(chan))
    /\ chan' = Tail(chan)
    /\ UNCHANGED <<sessions, resp, crashed, creates, down, lost>>

(* twamp_shutdown on the main thread: tw_session_clean_all, whose port  *)
(* releases are direct calls (is_main_thread), then the event socket is *)
(* unregistered and both pair sockets destroyed with what they hold.     *)
twamp_shutdown ==
    /\ Running
    /\ sessions' = {}
    /\ udp' = udp \ Released(sessions)
    /\ chan' = <<>>
    /\ down' = TRUE
    /\ UNCHANGED <<resp, crashed, creates, lost>>

(* twamp_init: empty list, sockets and handlers registered. *)
Init ==
    /\ sessions = {}
    /\ chan = <<>>
    /\ udp = {}
    /\ resp = [req |-> "none", status |-> "OK"]
    /\ crashed = FALSE
    /\ creates = 0
    /\ down = FALSE
    /\ lost = {}

Inputs == Key \cup BadKey

Next ==
    \/ \E k \in Inputs, md \in Modes : tw_pb_session_create(k, md)
    \/ \E k \in Inputs : tw_pb_session_delete(k)
    \/ \E k \in Key : tw_pb_session_counters(k)
    \/ \E v \in Vrfs \cup {"ENOENT"} : tw_pb_init(v)
    \/ tw_protobuf_handler_unknown
    \/ tw_event_register_udp_port
    \/ twamp_shutdown

(* The main thread's event loop polls the event socket while it has    *)
(* input, so a pending port message is eventually received.             *)
Fairness == WF_vars(tw_event_register_udp_port)

Spec == Init /\ [][Next]_vars /\ Fairness

---------------------------------------------------------------------------
TypeOK ==
    /\ sessions \subseteq Key
    /\ chan \in Seq(PortMsg)
    /\ udp \subseteq AFs \X Ports
    /\ resp \in [req : Requests, status : Statuses]
    /\ crashed \in BOOLEAN
    /\ creates \in 0 .. MaxCreates
    /\ down \in BOOLEAN
    /\ lost \subseteq AFs \X Ports

(* Port bookkeeping (tw_pb_session_create, tw_session_delete, the pair  *)
(* socket): once the main thread has applied every message still in     *)
(* flight, the UDP dispatcher holds exactly the (af, port) pairs of the  *)
(* listed sessions: no session without its port, no port left behind,   *)
(* however creates, deletes and VRF cleans of sessions sharing a port    *)
(* interleave with the main thread.  A pair a failed zsock_bsend dropped *)
(* a message of is out of step for good, as nothing retries; the others *)
(* must not be disturbed by it.                                          *)
PortsMatchSessions ==
    ~down =>
        \A p \in (AFs \X Ports) \ lost :
            p \in FoldLeft(tw_main_register_udp_port, udp, chan) <=> p \in SessionPorts

(* Liveness of port registration: a pair some session uses is          *)
(* eventually registered with the UDP dispatcher, unless every session  *)
(* using it goes away first or a message for it fails to send.          *)
PortsRegistered ==
    \A a \in AFs, p \in Ports :
        (<<a, p>> \in SessionPorts)
            ~> (<<a, p>> \in udp \/ <<a, p>> \notin SessionPorts \/ <<a, p>> \in lost)

====
